---- MODULE Spec2Model ----
(***************************************************************************)
(* The per-peer Diameter state machine of agent/peer_state_manager.go,     *)
(* with the tasks it shares state with: the reader task that publishes     *)
(* decoded messages, the watchdog timer, the callers of                    *)
(* Peer.InitiateDisconnect and Peer.SendMessage, and the Agent task that   *)
(* forwards the state machine's events to the consumer.                    *)
(*                                                                         *)
(* Every task is cut at its blocking operations: a channel operation that  *)
(* can block and a call of transport.Write.  One action is the code that   *)
(* runs from one such point to the next.  A send on a buffered channel is  *)
(* part of the step that makes it and is guarded by the channel's          *)
(* capacity.                                                               *)
(***************************************************************************)
EXTENDS Integers, Sequences, FiniteSets, TLC

\* ---------------------------------------------------------------- bounds

\* What the environment does in one run: the messages the reader task
\* decodes, the calls of Peer.InitiateDisconnect and Peer.SendMessage, and
\* the expiries of the watchdog timer, all together.
MaxInputs == 4
\* The same, in the runs that also follow every event through Agent.Run to
\* the consumer.
MaxAgentInputs == 3

\* ------------------------------------------------------ program constants

CapabilitiesExchangeCode == 257
DeviceWatchdogCode == 280
DisconnectPeerCode == 282
\* A command code that is none of the three above: the one the example
\* applications exchange, in application 0.
OtherCode == 272
\* Agent.peerHandlersIncomingEventChannel and Agent.outgoingEventChannel.
PeerEventChannelCap == 100
OutgoingEventChannelCap == 20
\* Seed of the hop-by-hop generator (any uint32 in the code).
HbhSeed == 1000

\* Seed of the end-to-end generator (any uint32 in the code).
E2eSeed == 5000
\* The low eight bits of the clock (seconds) EndToEndIdGenerator.Next reads.
ClockLow8 == 1

Users == {"u1"}

\* ------------------------------------------------------------------ AVPs

\* A DiamIdent or UTF8String value is its byte string; an IP address is its
\* four (IPv4) or sixteen (IPv6) bytes.
DiameterEntity(host, realm, ips, vendor, product) ==
    [OriginHost |-> host, OriginRealm |-> realm, HostIPAddresses |-> ips,
     VendorID |-> vendor, ProductName |-> product]

NoEntity == DiameterEntity(<<>>, <<>>, <<>>, 0, <<>>)

IPv4Address == <<10, 0, 0, 1>>
OtherIPv4Address == <<10, 0, 0, 2>>
IPv6Address == <<32, 1, 13, 184, 0, 0, 0, 0, 0, 0, 0, 0, 0, 0, 0, 1>>

\* The identity the agent is configured with: host "h1" in realm "r1".
DefaultLocalIdentity == DiameterEntity(<<104, 49>>, <<114, 49>>, <<IPv4Address>>, 193, <<97>>)

\* The identity of the peer: host "h2" in realm "r2".
PeerIdentity == DiameterEntity(<<104, 50>>, <<114, 50>>, <<OtherIPv4Address>>, 10415, <<98>>)

PutUint32(v) == <<(v \div 16777216) % 256, (v \div 65536) % 256, (v \div 256) % 256, v % 256>>

Uint32(b) == ((b[1] * 256 + b[2]) * 256 + b[3]) * 256 + b[4]

Uint16(b) == b[1] * 256 + b[2]

PutUint24(v) == <<(v \div 65536) % 256, (v \div 256) % 256, v % 256>>

Uint24(b) == (b[1] * 256 + b[2]) * 256 + b[3]

Zeroes(n) == [i \in 1..n |-> 0]

From(b, i) == SubSeq(b, i, Len(b))

\* AVP.updatePaddedLength
PaddedLength(length) ==
    IF (length % 4) > 0 THEN length + (4 - (length % 4)) ELSE length

\* NewAVP
NewAVP(code, vendorID, mandatory, data) ==
    LET length == (IF vendorID # 0 THEN 12 ELSE 8) + Len(data)
    IN [Code |-> code, VendorSpecific |-> vendorID # 0, Mandatory |-> mandatory,
        Protected |-> FALSE, VendorID |-> vendorID, Data |-> data,
        Length |-> length, PaddedLength |-> PaddedLength(length)]

\* An AVP of the base protocol with the M flag, as the agent builds them.
AVP(code, data) == NewAVP(code, 0, TRUE, data)

\* A nil *AVP.
NilAVP == [nil |-> TRUE]

\* AVP.Encode without the padding.
EncodeAVPWithoutPadding(avp) ==
    PutUint32(avp.Code)
        \o <<(IF avp.VendorSpecific THEN 128 ELSE 0) + (IF avp.Mandatory THEN 64 ELSE 0)
                + (IF avp.Protected THEN 32 ELSE 0)>>
        \o PutUint24(avp.Length)
        \o (IF avp.VendorSpecific THEN PutUint32(avp.VendorID) ELSE <<>>)
        \o avp.Data

\* AVP.Encode: code, flags and length, the vendor id when the V flag is
\* set, the data and the padding.
EncodeAVP(avp) ==
    PutUint32(avp.Code)
        \o <<(IF avp.VendorSpecific THEN 128 ELSE 0) + (IF avp.Mandatory THEN 64 ELSE 0)
                + (IF avp.Protected THEN 32 ELSE 0)>>
        \o PutUint24(avp.Length)
        \o (IF avp.VendorSpecific THEN PutUint32(avp.VendorID) ELSE <<>>)
        \o avp.Data \o Zeroes(avp.PaddedLength - avp.Length)

RECURSIVE EncodeAVPs(_)
EncodeAVPs(avps) ==
    IF avps = <<>> THEN <<>> ELSE EncodeAVP(Head(avps)) \o EncodeAVPs(Tail(avps))

\* DecodeAVP: err is set when the input is too short for the AVP; panic,
\* when the length field is less than the length of the header, which
\* make([]byte, avp.Length-headerLength) does not survive.
DecodeAVP(input) ==
    IF Len(input) < 8
    THEN [err |-> TRUE, panic |-> FALSE, avp |-> AVP(0, <<>>), PaddedLength |-> 0]
    ELSE LET flags == input[5]
             length == Uint24(From(input, 6))
             vendorSpecific == (flags \div 128) % 2 = 1
             headerLength == IF vendorSpecific THEN 12 ELSE 8
         IN IF length > Len(input) \/ length < headerLength
            THEN [err |-> TRUE,
                  panic |-> length <= Len(input) /\ Len(input) >= headerLength,
                  avp |-> AVP(0, <<>>), PaddedLength |-> 0]
            ELSE [err |-> FALSE, panic |-> FALSE,
                  avp |-> [Code |-> Uint32(input),
                           VendorSpecific |-> vendorSpecific,
                           Mandatory |-> (flags \div 64) % 2 = 1,
                           Protected |-> (flags \div 32) % 2 = 1,
                           VendorID |-> IF vendorSpecific THEN Uint32(From(input, 9)) ELSE 0,
                           Data |-> SubSeq(input, headerLength + 1, length),
                           Length |-> length, PaddedLength |-> PaddedLength(length)],
                  PaddedLength |-> PaddedLength(length)]

\* The loop of ConvertAVPDataToTypedData over the data of a Grouped AVP:
\* after each AVP it goes on at groupedBytes[nextAvp.PaddedLength+1:],
\* which is out of range when no byte follows the AVP.
RECURSIVE AvpsInGroup(_)
AvpsInGroup(groupedBytes) ==
    IF Len(groupedBytes) = 0
    THEN [err |-> FALSE, panic |-> FALSE, avps |-> <<>>]
    ELSE LET nextAvp == DecodeAVP(groupedBytes)
         IN IF nextAvp.err
            THEN [err |-> TRUE, panic |-> nextAvp.panic, avps |-> <<>>]
            ELSE IF nextAvp.PaddedLength + 1 > Len(groupedBytes)
            THEN [err |-> TRUE, panic |-> TRUE, avps |-> <<>>]
            ELSE LET rest == AvpsInGroup(From(groupedBytes, nextAvp.PaddedLength + 2))
                 IN [err |-> rest.err, panic |-> rest.panic,
                     avps |-> <<nextAvp.avp>> \o rest.avps]

NewAddressTypeFromIP(ip) ==
    IF Len(ip) = 4 THEN <<0, 1>> \o ip ELSE <<0, 2>> \o ip

\* NewTypedAVP for the types the agent uses.
NewTypedAVP(code, avpType, value) ==
    CASE avpType \in {"Unsigned32", "Enumerated"} -> AVP(code, PutUint32(value))
      [] avpType = "Address" -> AVP(code, NewAddressTypeFromIP(value))
      [] avpType \in {"DiamIdent", "UTF8String"} -> AVP(code, value)
      [] avpType = "Grouped" -> AVP(code, EncodeAVPs(value))

\* ConvertAVPDataToTypedData: err is set when the data cannot be converted;
\* pointer is set when the value returned is a *net.IP, not a net.IP.  For
\* Grouped the value starts with the ten nil entries of
\* make([]*AVP, 10), and panic is set when the call does not return.
ConvertAVPDataToTypedData(avpData, dataType) ==
    CASE dataType = "Unsigned32" ->
            IF Len(avpData) # 4
            THEN [err |-> TRUE, pointer |-> FALSE, value |-> 0]
            ELSE [err |-> FALSE, pointer |-> FALSE, value |-> Uint32(avpData)]
      [] dataType = "Address" ->
            IF Len(avpData) = 6
            THEN IF Uint16(avpData) # 1
                 THEN [err |-> TRUE, pointer |-> FALSE, value |-> <<>>]
                 ELSE [err |-> FALSE, pointer |-> FALSE, value |-> SubSeq(avpData, 3, 6)]
            ELSE IF Len(avpData) = 10
            THEN IF Uint16(avpData) # 2
                 THEN [err |-> TRUE, pointer |-> FALSE, value |-> <<>>]
                 ELSE [err |-> FALSE, pointer |-> TRUE, value |-> SubSeq(avpData, 3, 10)]
            ELSE [err |-> TRUE, pointer |-> FALSE, value |-> <<>>]
      [] dataType \in {"DiamIdent", "UTF8String"} ->
            [err |-> FALSE, pointer |-> FALSE, value |-> avpData]
      [] dataType = "Grouped" ->
            LET avpsInGroup == AvpsInGroup(avpData)
            IN [err |-> avpsInGroup.err, pointer |-> FALSE, panic |-> avpsInGroup.panic,
                value |-> IF avpsInGroup.err THEN <<>>
                          ELSE [i \in 1..10 |-> NilAVP] \o avpsInGroup.avps]

OriginHostAvp(e) == NewTypedAVP(264, "DiamIdent", e.OriginHost)

OriginRealmAvp(e) == NewTypedAVP(296, "DiamIdent", e.OriginHost)

VendorIdAVP(e) == NewTypedAVP(266, "Unsigned32", e.VendorID)

ProductNameAvp(e) == NewTypedAVP(269, "UTF8String", e.ProductName)

HostIpAddressAvps(e) ==
    [i \in 1..Len(e.HostIPAddresses) |-> NewTypedAVP(257, "Address", e.HostIPAddresses[i])]

CapabilitiesExchangeMandatoryAvps(e) ==
    <<OriginHostAvp(e), OriginRealmAvp(e)>> \o HostIpAddressAvps(e)
        \o <<VendorIdAVP(e), ProductNameAvp(e)>>

CapabilitiesExchangeMandatoryAvpsWithResultCode(e, resultCodeAvp) ==
    <<resultCodeAvp, OriginHostAvp(e), OriginRealmAvp(e)>> \o HostIpAddressAvps(e)
        \o <<VendorIdAVP(e), ProductNameAvp(e)>>

cachedResponseCode2001 == NewTypedAVP(268, "Unsigned32", 2001)

\* -------------------------------------------------------------- messages

NoMessage ==
    [Version |-> -1, Length |-> -1, Flags |-> 0, AppID |-> -1, Code |-> -1,
     HopByHopID |-> -1, EndToEndID |-> -1, Avps |-> <<>>]

\* The R bit of the flags of a message.
MsgFlagRequest == 128

RECURSIVE SumOfPaddedLengths(_)
SumOfPaddedLengths(avps) ==
    IF avps = <<>> THEN 0 ELSE Head(avps).PaddedLength + SumOfPaddedLengths(Tail(avps))

\* NewMessage: the low four bits of the flags are dropped, the code is cut
\* to 24 bits, the mandatory AVPs get the M flag, and Length is the header
\* and the padded lengths of the AVPs.
NewMessage(flags, code, appID, hopByHopID, endToEndID, mandatoryAvps, additionalAvps) ==
    [Version |-> 1,
     Length |-> 20 + SumOfPaddedLengths(mandatoryAvps) + SumOfPaddedLengths(additionalAvps),
     Flags |-> (flags \div 16) * 16,
     Code |-> code % 16777216,
     AppID |-> appID, HopByHopID |-> hopByHopID, EndToEndID |-> endToEndID,
     Avps |-> [i \in DOMAIN mandatoryAvps |-> [mandatoryAvps[i] EXCEPT !.Mandatory = TRUE]]
                \o additionalAvps]

\* NewMessage with the R flag or no flag, and mandatory AVPs only.
Message(appId, code, request, hbh, e2e, avps) ==
    NewMessage(IF request THEN MsgFlagRequest ELSE 0, code, appId, hbh, e2e, avps, <<>>)

TopLevelAvpsMatching(m, code) ==
    SelectSeq(m.Avps, LAMBDA a : a.VendorID = 0 /\ a.Code = code)

NumberOfTopLevelAvpsMatching(m, code) == Len(TopLevelAvpsMatching(m, code))

FirstAvpMatching(m, code) == TopLevelAvpsMatching(m, code)[1]

\* The AVPs of the Capabilities-Exchange message of a peer with identity e.
PeerCapabilitiesAvps(e) ==
    <<NewTypedAVP(264, "DiamIdent", e.OriginHost), NewTypedAVP(296, "DiamIdent", e.OriginRealm)>>
        \o [i \in 1..Len(e.HostIPAddresses) |-> NewTypedAVP(257, "Address", e.HostIPAddresses[i])]
        \o <<NewTypedAVP(266, "Unsigned32", e.VendorID), NewTypedAVP(269, "UTF8String", e.ProductName)>>

Without(avps, code) == SelectSeq(avps, LAMBDA a : a.Code # code)

Twice(avps, code) == avps \o SelectSeq(avps, LAMBDA a : a.Code = code)

\* What a Capabilities-Exchange message that opens the exchange can carry:
\* the AVPs of the peer's identity with one or two IPv4 addresses or an IPv6
\* address, the same with one of the five AVPs left out or one of the four
\* single ones repeated, and a Host-IP-Address of family 2 with eight bytes.
FirstCapabilitiesAvps ==
    { PeerCapabilitiesAvps(PeerIdentity),
      PeerCapabilitiesAvps([PeerIdentity EXCEPT !.HostIPAddresses = <<OtherIPv4Address, IPv4Address>>]),
      PeerCapabilitiesAvps([PeerIdentity EXCEPT !.HostIPAddresses = <<IPv6Address>>]),
      Without(PeerCapabilitiesAvps(PeerIdentity), 257)
          \o <<AVP(257, <<0, 2>> \o SubSeq(IPv6Address, 1, 8))>> }
    \cup { Without(PeerCapabilitiesAvps(PeerIdentity), c) : c \in {264, 296, 266, 269, 257} }
    \cup { Twice(PeerCapabilitiesAvps(PeerIdentity), c) : c \in {264, 296, 266, 269} }

\* The messages the peer can send as its n-th message: every state-machine
\* message and an application message.  Only the AVPs of the message that
\* opens the exchange are ever looked at.
IncomingMessages(n) ==
    { Message(0, CapabilitiesExchangeCode, r, n, n + n + 1, avps) :
        r \in BOOLEAN,
        avps \in IF n = 1 THEN FirstCapabilitiesAvps ELSE {PeerCapabilitiesAvps(PeerIdentity)} }
    \cup { Message(0, c, r, n, n + n + 1, SubSeq(PeerCapabilitiesAvps(PeerIdentity), 1, 2)) :
            c \in {DeviceWatchdogCode, DisconnectPeerCode}, r \in BOOLEAN }
    \cup { Message(0, OtherCode, TRUE, n, n + n + 1, <<>>) }

\* ------------------------------------------------------- message helpers

IsRequest(m) == (m.Flags \div MsgFlagRequest) % 2 = 1

IsAnswer(m) == ~IsRequest(m)

MessageIsADiameterConnectionStateMessage(m) ==
    m.AppID = 0 /\ m.Code \in {CapabilitiesExchangeCode, DeviceWatchdogCode, DisconnectPeerCode}

stateMachineMessageTypeForMessage(m) ==
    IF m.AppID = 0
    THEN CASE m.Code = CapabilitiesExchangeCode -> (IF IsRequest(m) THEN "cer" ELSE "cea")
           [] m.Code = DeviceWatchdogCode -> (IF IsRequest(m) THEN "dwr" ELSE "dwa")
           [] m.Code = DisconnectPeerCode -> (IF IsRequest(m) THEN "dpr" ELSE "dpa")
           [] OTHER -> "notAStateMachineMessage"
    ELSE "notAStateMachineMessage"

\* GenerateMatchingResponseWithAvps with the end-to-end identifier of the
\* answer taken from the hop-by-hop identifier of the request.
\* m.Flags &^ MsgFlagRequest
WithoutRequestFlag(flags) == IF (flags \div MsgFlagRequest) % 2 = 1 THEN flags - MsgFlagRequest ELSE flags

GenerateMatchingResponseWithAvpsMixingIds(m, avps) ==
    NewMessage(WithoutRequestFlag(m.Flags), m.Code, m.AppID, m.HopByHopID, m.HopByHopID, avps, <<>>)

GenerateMatchingResponseWithAvps(m, avps) ==
    NewMessage(WithoutRequestFlag(m.Flags), m.Code, m.AppID, m.HopByHopID, m.EndToEndID, avps, <<>>)

generateCER(e, hbh, e2e) ==
    Message(0, CapabilitiesExchangeCode, TRUE, hbh, e2e, CapabilitiesExchangeMandatoryAvps(e))

generateCEA(e, forCER) ==
    GenerateMatchingResponseWithAvps(forCER,
        CapabilitiesExchangeMandatoryAvpsWithResultCode(e, cachedResponseCode2001))

generateDWR(e, hbh, e2e) ==
    Message(0, DeviceWatchdogCode, TRUE, hbh, e2e, <<OriginHostAvp(e), OriginHostAvp(e)>>)

generateDPR(e, hbh, e2e) ==
    Message(0, DisconnectPeerCode, TRUE, hbh, e2e,
            <<OriginHostAvp(e), OriginHostAvp(e), NewTypedAVP(273, "Enumerated", 2)>>)

\* generateDWA with the answer forgotten.
generateDWAOmitted(e, forDWR) == NoMessage

generateDWA(e, forDWR) ==
    GenerateMatchingResponseWithAvps(forDWR,
        <<cachedResponseCode2001, OriginHostAvp(e), OriginHostAvp(e)>>)

generateDPA(e, forDPR) ==
    GenerateMatchingResponseWithAvps(forDPR,
        <<cachedResponseCode2001, OriginHostAvp(e), OriginHostAvp(e)>>)

\* DiameterEntityFromCapabilitiesExchangeMessage: status "err" when an error
\* is returned, "panic" when the type assertion of line 170 fails, else "ok"
\* with the entity.
DiameterEntityFromCapabilitiesExchangeMessage(m) ==
    IF \E c \in {264, 296, 266, 269} : NumberOfTopLevelAvpsMatching(m, c) # 1
    THEN [status |-> "err", entity |-> NoEntity]
    ELSE IF NumberOfTopLevelAvpsMatching(m, 257) = 0
    THEN [status |-> "err", entity |-> NoEntity]
    ELSE LET hostIpAvps == TopLevelAvpsMatching(m, 257)
             originHost == ConvertAVPDataToTypedData(FirstAvpMatching(m, 264).Data, "DiamIdent")
             originRealm == ConvertAVPDataToTypedData(FirstAvpMatching(m, 296).Data, "DiamIdent")
             vendorId == ConvertAVPDataToTypedData(FirstAvpMatching(m, 266).Data, "Unsigned32")
             productName == ConvertAVPDataToTypedData(FirstAvpMatching(m, 269).Data, "UTF8String")
             ipAddr == [i \in 1..Len(hostIpAvps) |->
                           ConvertAVPDataToTypedData(hostIpAvps[i].Data, "Address")]
             \* the first address the loop of lines 166-173 stops at, if any
             stops == { i \in 1..Len(hostIpAvps) : ipAddr[i].err \/ ipAddr[i].pointer }
             first == CHOOSE i \in stops : \A j \in stops : i <= j
         IN IF originHost.err \/ originRealm.err \/ vendorId.err \/ productName.err
            THEN [status |-> "err", entity |-> NoEntity]
            ELSE IF stops # {}
            THEN [status |-> IF ipAddr[first].err THEN "err" ELSE "panic", entity |-> NoEntity]
            ELSE [status |-> "ok",
                  entity |-> DiameterEntity(originHost.value, originRealm.value,
                                            [i \in 1..Len(hostIpAvps) |-> ipAddr[i].value],
                                            vendorId.value, productName.value)]

\* ----------------------------------------------------------------- state

VARIABLES
    initialState,          \* manager.initialState: "TowardPeer" or "ByPeer"
    pc,                    \* where NewRun is
    nextState,             \* NewRun's nextState: "None" until the handshake is done
    peer,                  \* manager.peer is set
    transportClosed,       \* manager.transport.Close() was called
    inWrite,               \* the tasks inside transport.Write, each with its message
    written,               \* each task's calls of transport.Write that returned, in order
    messageReaderChannel,  \* what the reader task is blocked sending, or NoEvent
    readerDone,            \* incomingMessageStreamReceiver returned
    decoded,               \* the messages the reader decoded, in order
    watchdogTimer,         \* "active", "fired" (a value waits in C) or "read"
    inputs,                \* what the environment did so far (see MaxInputs)
    nextValue,             \* HopByHopIdGenerator.nextValue
    nextValueForLower24Bits, \* EndToEndIdGenerator.nextValueForLower24Bits
    localIdentity,         \* manager.localIdentity
    peerIdentity,          \* Execute's peerIdentity, then manager.peer.Identity
    disconnectInitiated,   \* the caller NewRun is serving, or "none"
    user,                  \* each caller's position
    calls,                 \* the calls that returned, in order: what each returned, the
                           \* result of its transport.Write and the state it left
    processed,             \* the transitions NewRun made for the messages it read
    eventChannel,          \* Agent.peerHandlersIncomingEventChannel
    outgoingEventChannel,  \* Agent.outgoingEventChannel
    delivered,             \* the events the consumer read from Agent.EventChannel()
    sentMessages,          \* the messages whose encodings make up a byte stream
    pushed,                \* how many bytes of the stream were passed to ReceiveBytes
    incomingBuffer,        \* MessageByteReader.incomingBuffer
    extractedMessages,     \* the messages the calls of ReceiveBytes returned, in order
    failed,                \* a call of ReceiveBytes returned an error
    cases,                 \* what the chunks passed so far did (see ReceiveBytesOfChunk)
    internalByteBuffer,    \* MessageStreamReader.internalByteBuffer
    underlyingReader,      \* MessageStreamReader.underlyingReader: what it handed out
    returned,              \* what the calls of ReadNextMessage returned, in order
    hbhGenerator,          \* SequenceGenerator.hbhGenerator: mu and nextValue
    eteGenerator,          \* SequenceGenerator.eteGenerator: mu and nextValueForLower24Bits
    clock,                 \* time.Now().Unix()
    callerPc,              \* where each caller of the generators is
    local,                 \* the locals n and now of each caller's call of Next
    handedOut,             \* what the calls of Next returned, in the order of return
    seeds,                 \* the values the generators were created with
    original,              \* a message as NewMessage built it
    obtained,              \* that message and the messages obtained from it, with the
                           \* AVP objects each one points to
    givenBytes,            \* the bytes passed to DecodeMessage and to DecodeAVP
    decodings,             \* how the calls made with them ended
    topLevelAvps,          \* Message.Avps of a message a caller looks AVPs up in: the
                           \* AVP objects it points to (see IndexedAvps)
    mapOfAvpsByVendorAndCode, \* Message.mapOfAvpsByVendorAndCode: nil until built, then
                              \* the slice of AVP objects under each key
    lookups                \* the lookups made, each with what a scan of Message.Avps
                           \* gave at that moment

vars == <<initialState, localIdentity, peerIdentity, nextValueForLower24Bits, pc, nextState, peer, transportClosed, inWrite, written,
          messageReaderChannel, readerDone, decoded, watchdogTimer, inputs, nextValue,
          disconnectInitiated, user, calls, processed, eventChannel, outgoingEventChannel,
          delivered,
          sentMessages, pushed, incomingBuffer, extractedMessages, failed, cases,
          internalByteBuffer, underlyingReader, returned,
          hbhGenerator, eteGenerator, clock, callerPc, local, handedOut, seeds,
          original, obtained, givenBytes, decodings,
          topLevelAvps, mapOfAvpsByVendorAndCode, lookups>>

\* The variables of a peer connection's tasks, its callers and the agent.
managerVars == <<initialState, localIdentity, peerIdentity, nextValueForLower24Bits, pc,
                 nextState, peer, transportClosed, inWrite, written, messageReaderChannel,
                 readerDone, decoded, watchdogTimer, inputs, nextValue, disconnectInitiated,
                 user, calls, processed, eventChannel, outgoingEventChannel, delivered>>

\* The variables of the MessageByteReader.
readerVars == <<sentMessages, pushed, incomingBuffer, extractedMessages, failed, cases>>

\* The variables of the MessageStreamReader.
streamVars == <<internalByteBuffer, underlyingReader, returned>>

\* The variables of a SequenceGenerator used on its own, and of its callers.
generatorVars == <<hbhGenerator, eteGenerator, clock, callerPc, local, handedOut, seeds>>

\* The variables of the messages built, encoded, decoded and cloned on
\* their own.
messageVars == <<original, obtained>>

\* The variables of the diameter package's values, which the tasks of a
\* peer connection leave alone.
\* The variables of the calls of DecodeMessage and DecodeAVP.
decoderVars == <<givenBytes, decodings>>

\* The variables of the lookups of AVPs in a message.
indexVars == <<topLevelAvps, mapOfAvpsByVendorAndCode, lookups>>

libraryVars == <<readerVars, streamVars, generatorVars, messageVars, decoderVars, indexVars>>

\* What a use of the MessageByteReader, of the MessageStreamReader and of
\* the SequenceGenerator on its own leaves alone.
besidesReader == <<indexVars, streamVars, generatorVars, messageVars, decoderVars, managerVars>>
besidesStream == <<indexVars, readerVars, generatorVars, messageVars, decoderVars, managerVars>>
besidesGenerators == <<indexVars, readerVars, streamVars, messageVars, decoderVars, managerVars>>
besidesMessages == <<indexVars, readerVars, streamVars, generatorVars, decoderVars, managerVars>>
besidesDecoder == <<indexVars, readerVars, streamVars, generatorVars, messageVars, managerVars>>
besidesIndex == <<decoderVars, readerVars, streamVars, generatorVars, messageVars, managerVars>>

NoEvent == [IncomingMessage |-> NoMessage, Error |-> "none"]

\* The state after newPeerStateManager(localIdentity, ...).
newPeerStateManager(identity) ==
    /\ initialState \in {"TowardPeer", "ByPeer"}
    /\ pc = "Start"
    /\ nextState = "None"
    /\ peer = FALSE
    /\ transportClosed = FALSE
    /\ inWrite = {}
    /\ written = [t \in {"sm"} \cup Users |-> <<>>]
    /\ messageReaderChannel = NoEvent
    /\ readerDone = FALSE
    /\ decoded = <<>>
    /\ watchdogTimer = "stopped"
    /\ inputs = 0
    /\ nextValue = HbhSeed
    /\ nextValueForLower24Bits = E2eSeed
    /\ localIdentity = identity
    /\ peerIdentity = NoEntity
    /\ disconnectInitiated = "none"
    /\ user = [u \in Users |-> "idle"]
    /\ calls = <<>>
    /\ processed = <<>>
    /\ eventChannel = <<>>
    /\ outgoingEventChannel = <<>>
    /\ delivered = <<>>

\* The state after NewMessageByteReader().
NewMessageByteReader ==
    /\ pushed = 0
    /\ incomingBuffer = <<>>
    /\ extractedMessages = <<>>
    /\ failed = FALSE
    /\ cases = {}

\* The state after NewMessageStreamReader(usingReader), nothing read yet
\* from usingReader.
NewMessageStreamReader ==
    /\ internalByteBuffer = <<>>
    /\ underlyingReader = [handedOut |-> 0, err |-> "nil", reads |-> 0, lost |-> 0]
    /\ returned = <<>>

\* The tasks that call a SequenceGenerator used on its own.
GeneratorCallers == {"g1", "g2"}

\* The state after NewSequenceGeneratorSet() when rand.Int returned these
\* values, with the clock at this second and no call made.  A uint32 is
\* kept as its two halves of 16 bits, the high one first.
NewSequenceGeneratorSet(hbhSeed, eteSeed, second) ==
    /\ hbhGenerator = [mu |-> "unlocked", nextValue |-> hbhSeed]
    /\ eteGenerator = [mu |-> "unlocked", nextValueForLower24Bits |-> eteSeed]
    /\ clock = second
    /\ callerPc = [c \in GeneratorCallers |-> "idle"]
    /\ local = [c \in GeneratorCallers |-> [n |-> <<0, 0>>, now |-> 0, from |-> 0]]
    /\ handedOut = <<>>
    /\ seeds = [hbh |-> hbhSeed, ete |-> eteSeed, second |-> second]

\* The values of the diameter package before any of them is used.
\* No call of DecodeMessage or DecodeAVP is made.
NoDecoding ==
    /\ givenBytes = <<>>
    /\ decodings = <<>>

\* A message without AVPs in which nothing was looked up.
NoLookup ==
    /\ topLevelAvps = <<>>
    /\ mapOfAvpsByVendorAndCode = [nil |-> TRUE]
    /\ lookups = <<>>

NewLibraryValues ==
    /\ NewMessageByteReader
    /\ NewMessageStreamReader
    /\ NewSequenceGeneratorSet(<<0, 1000>>, <<0, 5000>>, 1)
    /\ original = NoMessage
    /\ obtained = <<>>
    /\ NoDecoding /\ NoLookup

Init == newPeerStateManager(DefaultLocalIdentity) /\ NewLibraryValues /\ sentMessages = <<>>


\* ---------------------------------------------------------------- events

PeerStateEvent(type, p, m, err) == [Type |-> type, Peer |-> p, Message |-> m, Error |-> err]

HasRoomFor(evs) == Len(eventChannel) + Len(evs) <= PeerEventChannelCap

NotifyThatThePeerClosedTheTransport(p) ==
    PeerStateEvent("PeerClosedTransportEvent", p, NoMessage, "none")

NotifyThatAnErrorOccurred(p, err) ==
    PeerStateEvent("ErrorEvent", p, NoMessage, err)

NotifyThatDiameterConnectionHasBeenEstablished(p) ==
    PeerStateEvent("DiameterConnectionEstablishedEvent", p, NoMessage, "none")

NotifyThatDiameterConnectionHasBeenClosed(p) ==
    PeerStateEvent("DiameterConnectionClosedEvent", p, NoMessage, "none")

NotifyThatAStateMachineMessageWasReceivedFromThePeer(p, m) ==
    PeerStateEvent("StateMachineMessageReceivedFromPeerEvent", p, m, "none")

NotifyThatAStateMachineMessageWasSentToThePeer(p, m) ==
    PeerStateEvent("StateMachineMessageSentToPeerEvent", p, m, "none")

NotifyThatAMessageWasReceivedFromThePeer(p, m) ==
    PeerStateEvent("MessageReceivedFromPeerEvent", p, m, "none")

ClosedTransportToPeer(p) ==
    PeerStateEvent("ClosedTransportToPeerEvent", p, NoMessage, "none")

\* The event NewRun and Execute emit for a message read from the peer.
NotifyReceived(p, m, isStateMachineMessage) ==
    IF isStateMachineMessage
    THEN NotifyThatAStateMachineMessageWasReceivedFromThePeer(p, m)
    ELSE NotifyThatAMessageWasReceivedFromThePeer(p, m)

\* ------------------------------------------------------------- transport

\* What transport.Write can return: nil, io.EOF or another error.  A Write
\* begun after transport.Close() returns an error that is not io.EOF.
WriteResults == IF transportClosed THEN {"err"} ELSE {"ok", "eof", "err"}

WriteOf(by) == CHOOSE w \in inWrite : w.by = by

\* sendMessage: the events it emits itself and the error it returns for
\* the result of transport.Write.
sendMessageEvents(res, p) ==
    IF res = "eof" THEN <<NotifyThatThePeerClosedTheTransport(p)>> ELSE <<>>

sendMessageError(res) == IF res = "err" THEN "err" ELSE "nil"

\* SendStateMachineMessage: the events emitted and the error returned.
SendStateMachineMessageEvents(res, p, m) ==
    IF sendMessageError(res) # "nil"
    THEN sendMessageEvents(res, p)
    ELSE sendMessageEvents(res, p) \o <<PeerStateEvent("StateMachineMessageSentToPeerEvent", p, m, "none")>>

SendStateMachineMessageError(res) == sendMessageError(res)

\* ---------------------------------------------------------- peer states

NoError == [Error |-> "none", initiateDisconnectPeer |-> FALSE]

PeerStateError(err, initiate) == [Error |-> err, initiateDisconnectPeer |-> initiate]

Transition(state, m, err) == [nextState |-> state, messageToSend |-> m, err |-> err]

\* PeerStateConnected with ProcessIncomingDPA accepting the answer as
\* PeerStateHalfClosed does.
PeerStateConnectedAcceptingDPA(type, m) ==
    CASE type = "cer" -> Transition("Disconnected", NoMessage, PeerStateError("received Capabilities-Exchange Request on peer that is already connected", TRUE))
      [] type = "cea" -> Transition("Disconnected", NoMessage, PeerStateError("received Capabilities-Exchange Answer on peer that is already connected", TRUE))
      [] type = "dwr" -> Transition("Connected", generateDWA(localIdentity, m), NoError)
      [] type = "dwa" -> Transition("Connected", NoMessage, NoError)
      [] type = "dpr" -> Transition("Disconnected", generateDPA(localIdentity, m), NoError)
      [] type = "dpa" -> Transition("Disconnected", NoMessage, NoError)
      [] OTHER -> Transition("Connected", NoMessage, NoError)

\* PeerStateConnected with ProcessIncomingDPR returning no message to send.
PeerStateConnectedNotAnsweringDPR(type, m) ==
    CASE type = "cer" -> Transition("Disconnected", NoMessage, PeerStateError("received Capabilities-Exchange Request on peer that is already connected", TRUE))
      [] type = "cea" -> Transition("Disconnected", NoMessage, PeerStateError("received Capabilities-Exchange Answer on peer that is already connected", TRUE))
      [] type = "dwr" -> Transition("Connected", generateDWA(localIdentity, m), NoError)
      [] type = "dwa" -> Transition("Connected", NoMessage, NoError)
      [] type = "dpr" -> Transition("Disconnected", NoMessage, NoError)
      [] type = "dpa" -> Transition("Disconnected", NoMessage, PeerStateError("received unsolicited Disconnect-Peer Answer", TRUE))
      [] OTHER -> Transition("Connected", NoMessage, NoError)

PeerStateConnected(type, m) ==
    CASE type = "cer" -> Transition("Disconnected", NoMessage, PeerStateError("received Capabilities-Exchange Request on peer that is already connected", TRUE))
      [] type = "cea" -> Transition("Disconnected", NoMessage, PeerStateError("received Capabilities-Exchange Answer on peer that is already connected", TRUE))
      [] type = "dwr" -> Transition("Connected", generateDWA(localIdentity, m), NoError)
      [] type = "dwa" -> Transition("Connected", NoMessage, NoError)
      [] type = "dpr" -> Transition("Disconnected", generateDPA(localIdentity, m), NoError)
      [] type = "dpa" -> Transition("Disconnected", NoMessage, PeerStateError("received unsolicited Disconnect-Peer Answer", TRUE))
      [] OTHER -> Transition("Connected", NoMessage, NoError)

\* PeerStateHalfClosed with ProcessIncomingDWR answering as PeerStateConnected
\* does.
PeerStateHalfClosedAnsweringDWR(type, m) ==
    CASE type = "cer" -> Transition("Disconnected", NoMessage, PeerStateError("received Capabilities-Exchange Request on peer connection that is half-closed", FALSE))
      [] type = "cea" -> Transition("Disconnected", NoMessage, PeerStateError("received Capabilities-Exchange Answer on peer connection that is half-closed", FALSE))
      [] type = "dwr" -> Transition("HalfClosed", generateDWA(localIdentity, m), NoError)
      [] type = "dwa" -> Transition("HalfClosed", NoMessage, NoError)
      [] type = "dpr" -> Transition("Disconnected", NoMessage, PeerStateError("received Disconnect-Peer Request on peer connection that is half-closed", FALSE))
      [] type = "dpa" -> Transition("Disconnected", NoMessage, NoError)
      [] OTHER -> Transition("HalfClosed", NoMessage, NoError)

PeerStateHalfClosed(type, m) ==
    CASE type = "cer" -> Transition("Disconnected", NoMessage, PeerStateError("received Capabilities-Exchange Request on peer connection that is half-closed", FALSE))
      [] type = "cea" -> Transition("Disconnected", NoMessage, PeerStateError("received Capabilities-Exchange Answer on peer connection that is half-closed", FALSE))
      [] type = "dwr" -> Transition("HalfClosed", NoMessage, NoError)
      [] type = "dwa" -> Transition("HalfClosed", NoMessage, NoError)
      [] type = "dpr" -> Transition("Disconnected", NoMessage, PeerStateError("received Disconnect-Peer Request on peer connection that is half-closed", FALSE))
      [] type = "dpa" -> Transition("Disconnected", NoMessage, NoError)
      [] OTHER -> Transition("HalfClosed", NoMessage, NoError)

PeerStateDisconnected(type, m) ==
    Transition("Disconnected", NoMessage, PeerStateError("received message from a peer that is disconnected", FALSE))

\* nextState.ProcessIncomingCER .. ProcessIncomingNonStateMachineMessage
ProcessIncoming(state, type, m) ==
    CASE state = "Connected" -> PeerStateConnected(type, m)
      [] state = "HalfClosed" -> PeerStateHalfClosed(type, m)
      [] OTHER -> PeerStateDisconnected(type, m)

\* CanInitiateDisconnectInThisState with PeerStateHalfClosed answering true.
CanInitiateDisconnectAlsoInHalfClosed(state) == state \in {"Connected", "HalfClosed"}

CanInitiateDisconnectInThisState(state) == state = "Connected"

DiameterConnectionIsClosedInThisState(state) == state = "Disconnected"

\* NewPeerStateDisconnected notifies that the diameter connection has been closed.
NewPeerStateDisconnected(state, p) ==
    IF state = "Disconnected" THEN <<NotifyThatDiameterConnectionHasBeenClosed(p)>> ELSE <<>>

\* -------------------------------------------------------- watchdog timer

\* StopAndRestart blocks reading C when the timer has fired and C was read.
StopAndRestartBlocks(t) == t = "read"

\* StopAndRestart that leaves the timer as it is.
StopAndRestartWithoutReset(t) == t

StopAndRestart(t) == "active"

\* Restart that stops the timer and does not reset it.
RestartWithoutReset(t) == IF t = "active" THEN "panic" ELSE t

\* Restart panics when the timer is still active.
Restart(t) == IF t = "active" THEN "panic" ELSE "active"


\* HopByHopIdGenerator.Next: the value after the one handed out.  The
\* uint32 wraps at 2^32, which the few identifiers of a run never reach.
\* A generator that hands out the same value again.
NextHopByHopIdWithoutIncrement(n) == n

NextHopByHopId(n) == n + 1

\* EndToEndIdGenerator.Next: the clock's low eight bits above the low 24
\* bits of the counter.
NextEndToEndId(n) == (ClockLow8 % 256) * 16777216 + (n % 16777216)

\* ------------------------------------------------------- step building

Emit(evs) ==
    /\ HasRoomFor(evs)
    /\ eventChannel' = eventChannel \o evs

\* NewRun returns: the deferred function closes the transport and emits
\* ClosedTransportToPeerEvent with manager.peer.
Return(evs, p) ==
    /\ Emit(evs \o <<ClosedTransportToPeer(p)>>)
    /\ transportClosed' = TRUE
    /\ pc' = "Done"

Continue(to, evs) ==
    /\ Emit(evs)
    /\ pc' = to
    /\ UNCHANGED transportClosed

\* A task enters transport.Write; what the call will return is the
\* transport's choice.
\* arg is the message as the task got it, m the message it writes.
BeginWriteOf(by, arg, m) ==
    \E res \in WriteResults :
        inWrite' = inWrite \cup {[by |-> by, arg |-> arg, msg |-> m, res |-> res]}

BeginWrite(by, m) == BeginWriteOf(by, m, m)

EndWrite(by) ==
    /\ inWrite' = inWrite \ {WriteOf(by)}
    /\ written' = [written EXCEPT ![by] = Append(@, WriteOf(by))]

\* ----------------------------------------------------------- reader task

\* incomingMessageStreamReceiver decodes the next message, or gets an error
\* (io.EOF when the peer closed the transport), and blocks sending it.
ReadNextMessageFrom(messages) ==
    /\ ~readerDone
    /\ messageReaderChannel = NoEvent
    /\ \E m \in messages :
        /\ decoded' = Append(decoded, m)
        /\ messageReaderChannel' = [IncomingMessage |-> m, Error |-> "none"]
    /\ UNCHANGED <<libraryVars, initialState, localIdentity, processed, pc, nextState, peer, peerIdentity, transportClosed, inWrite, written,
                   readerDone, watchdogTimer, nextValue, nextValueForLower24Bits, disconnectInitiated,
                   user, calls, eventChannel, outgoingEventChannel, delivered>>

ReadNextMessage ==
    /\ inputs < MaxInputs
    /\ inputs' = inputs + 1
    /\ ReadNextMessageFrom(IncomingMessages(Len(decoded) + 1))

ReadNextMessageFails ==
    /\ ~readerDone
    /\ messageReaderChannel = NoEvent
    /\ \E e \in (IF transportClosed THEN {"err"} ELSE {"EOF", "err"}) :
        messageReaderChannel' = [IncomingMessage |-> NoMessage, Error |-> e]
    /\ UNCHANGED <<libraryVars, initialState, localIdentity, processed, pc, nextState, peer, peerIdentity, transportClosed, inWrite, written,
                   readerDone, decoded, watchdogTimer, inputs, nextValue, nextValueForLower24Bits,
                   disconnectInitiated, user, calls, eventChannel, outgoingEventChannel,
                   delivered>>

\* What NewRun and Execute emit for an event of the reader that carries an error.
ReaderErrorEvents(ev, p) ==
    IF ev.Error = "EOF"
    THEN <<NotifyThatThePeerClosedTheTransport(p)>>
    ELSE <<NotifyThatAnErrorOccurred(p, ev.Error)>>

\* ---------------------------------------------------------------- NewRun

\* NewRun up to the first blocking operation of initialState.Execute.
NewRunStart ==
    /\ pc = "Start"
    /\ watchdogTimer' = "active"
    /\ IF initialState = "ByPeer"
       THEN /\ pc' = "ExecuteRead"
            /\ UNCHANGED <<inWrite, nextValue, nextValueForLower24Bits>>
       ELSE /\ BeginWrite("sm", generateCER(localIdentity, nextValue, NextEndToEndId(nextValueForLower24Bits)))
            /\ nextValue' = NextHopByHopId(nextValue)
            /\ nextValueForLower24Bits' = nextValueForLower24Bits + 1
            /\ pc' = "ExecuteWrite"
    /\ UNCHANGED <<libraryVars, initialState, localIdentity, processed, nextState, peer, peerIdentity, transportClosed, written,
                   messageReaderChannel, readerDone, decoded, inputs, disconnectInitiated,
                   user, calls, eventChannel, outgoingEventChannel, delivered>>

\* The message Execute expects: a CER from a peer that opened the
\* transport, a CEA from a peer the transport was opened toward.
IsExpectedCapabilitiesExchange(m) ==
    IF initialState = "ByPeer"
    THEN ~(m.AppID # 0 \/ m.Code # CapabilitiesExchangeCode \/ IsAnswer(m))
    ELSE ~(m.AppID # 0 \/ m.Code # CapabilitiesExchangeCode \/ IsRequest(m))

\* Execute reads the peer's message from PeerMessageEventChannel.
ExecuteRead ==
    /\ pc = "ExecuteRead"
    /\ messageReaderChannel # NoEvent
    /\ LET ev == messageReaderChannel
           m == ev.IncomingMessage
           received == <<NotifyReceived(FALSE, m, MessageIsADiameterConnectionStateMessage(m))>>
           extracted == DiameterEntityFromCapabilitiesExchangeMessage(m)
       IN /\ messageReaderChannel' = NoEvent
          /\ readerDone' = (ev.Error # "none")
          /\ IF ev.Error # "none"
             THEN /\ Return(ReaderErrorEvents(ev, FALSE), peer)
                  /\ UNCHANGED <<nextState, peer, peerIdentity, inWrite>>
             ELSE IF ~IsExpectedCapabilitiesExchange(m)
             THEN /\ Return(received \o <<NotifyThatAnErrorOccurred(FALSE, "expected Capabilities-Exchange")>>, peer)
                  /\ UNCHANGED <<nextState, peer, peerIdentity, inWrite>>
             ELSE IF extracted.status = "err"
             THEN /\ Return(received \o <<NotifyThatAnErrorOccurred(FALSE, "missing mandatory AVP")>>, peer)
                  /\ UNCHANGED <<nextState, peer, peerIdentity, inWrite>>
             ELSE IF extracted.status = "panic"
             THEN /\ Continue("Panic", received)
                  /\ UNCHANGED <<nextState, peer, peerIdentity, inWrite>>
             ELSE IF initialState = "ByPeer"
             THEN /\ peerIdentity' = extracted.entity
                  /\ BeginWrite("sm", generateCEA(localIdentity, m))
                  /\ Continue("ExecuteWrite", received)
                  /\ UNCHANGED <<nextState, peer>>
             ELSE /\ peerIdentity' = extracted.entity
                  /\ peer' = TRUE
                  /\ nextState' = "Connected"
                  /\ Continue("Select", received \o <<NotifyThatDiameterConnectionHasBeenEstablished(TRUE)>>)
                  /\ UNCHANGED inWrite
    /\ UNCHANGED <<libraryVars, initialState, localIdentity, processed, written, decoded, watchdogTimer, inputs,
                   nextValue, nextValueForLower24Bits, disconnectInitiated, user, calls,
                   outgoingEventChannel, delivered>>

\* Execute's transport.Write returns: of the CER (then Execute reads the
\* CEA) or of the CEA (then the connection is established).
ExecuteWrite ==
    /\ pc = "ExecuteWrite"
    /\ LET w == WriteOf("sm")
           sent == <<NotifyThatAStateMachineMessageWasSentToThePeer(FALSE, w.msg)>>
       IN /\ EndWrite("sm")
          /\ IF w.res # "ok"
             THEN /\ Return(<<NotifyThatAnErrorOccurred(FALSE, "write failed")>>, peer)
                  /\ UNCHANGED <<nextState, peer, peerIdentity>>
             ELSE IF initialState = "ByPeer"
             THEN /\ peer' = TRUE
                  /\ nextState' = "Connected"
                  /\ Continue("Select", sent \o <<NotifyThatDiameterConnectionHasBeenEstablished(TRUE)>>)
                  /\ UNCHANGED peerIdentity
             ELSE /\ Continue("ExecuteRead", sent)
                  /\ UNCHANGED <<nextState, peer, peerIdentity>>
    /\ UNCHANGED <<libraryVars, initialState, localIdentity, processed, messageReaderChannel, readerDone, decoded, watchdogTimer,
                   inputs, nextValue, nextValueForLower24Bits, disconnectInitiated, user, calls,
                   outgoingEventChannel, delivered>>


\* ------------------------------------------------------ NewRun's select

\* A call returns res to its caller.  write is what the call's
\* transport.Write returned ("none": the call wrote nothing) and state the
\* state the call left the state machine in.
CallReturns(u, op, res, write, state) ==
    calls' = Append(calls, [user |-> u, op |-> op, res |-> res, write |-> write, state |-> state])

\* case disconnectInitiated := <-manager.disconnectNotificationChannel
SelectDisconnect(u) ==
    /\ pc = "Select"
    /\ user[u] = "InitiateDisconnect"
    /\ IF CanInitiateDisconnectInThisState(nextState)
       THEN /\ BeginWrite("sm", generateDPR(localIdentity, nextValue, NextEndToEndId(nextValueForLower24Bits)))
            /\ nextValue' = NextHopByHopId(nextValue)
            /\ nextValueForLower24Bits' = nextValueForLower24Bits + 1
            /\ disconnectInitiated' = u
            /\ user' = [user EXCEPT ![u] = "AwaitReturn"]
            /\ pc' = "WriteDPR"
            /\ UNCHANGED calls
       ELSE /\ CallReturns(u, "InitiateDisconnect", "cannot initiate disconnect in the current state", "none", nextState)
            /\ user' = [user EXCEPT ![u] = "idle"]
            /\ UNCHANGED <<inWrite, nextValue, nextValueForLower24Bits, disconnectInitiated, pc>>
    /\ UNCHANGED <<libraryVars, initialState, localIdentity, processed, nextState, peer, peerIdentity, transportClosed, written,
                   messageReaderChannel, readerDone, decoded, watchdogTimer, inputs,
                   eventChannel, outgoingEventChannel, delivered>>

\* The Write of the DPR of InitiateDisconnect returns.
WriteDPR ==
    /\ pc = "WriteDPR"
    /\ LET w == WriteOf("sm")
           u == disconnectInitiated
       IN /\ EndWrite("sm")
          /\ user' = [user EXCEPT ![u] = "idle"]
          /\ disconnectInitiated' = "none"
          /\ IF SendStateMachineMessageError(w.res) # "nil"
             THEN /\ CallReturns(u, "InitiateDisconnect", SendStateMachineMessageError(w.res), w.res, nextState)
                  /\ Return(SendStateMachineMessageEvents(w.res, peer, w.msg), peer)
                  /\ UNCHANGED nextState
             ELSE /\ nextState' = "HalfClosed"
                  /\ CallReturns(u, "InitiateDisconnect", "nil", w.res, "HalfClosed")
                  /\ Continue("Select", SendStateMachineMessageEvents(w.res, peer, w.msg))
    /\ UNCHANGED <<libraryVars, initialState, localIdentity, processed, peer, peerIdentity, messageReaderChannel, readerDone, decoded,
                   watchdogTimer, inputs, nextValue, nextValueForLower24Bits, outgoingEventChannel, delivered>>

\* case messageReaderEvent := <-manager.messageReaderChannel, up to the
\* return, the next select or the Write of the DPR or of the answer.
SelectMessage ==
    /\ pc = "Select"
    /\ messageReaderChannel # NoEvent
    /\ LET ev == messageReaderChannel
           m == ev.IncomingMessage
           type == stateMachineMessageTypeForMessage(m)
           t == ProcessIncoming(nextState, type, m)
           received == <<NotifyReceived(peer, m, type # "notAStateMachineMessage")>>
                           \o NewPeerStateDisconnected(t.nextState, peer)
       IN /\ messageReaderChannel' = NoEvent
          /\ readerDone' = (ev.Error # "none")
          /\ IF ev.Error # "none"
             THEN /\ Return(ReaderErrorEvents(ev, peer), peer)
                  /\ UNCHANGED <<nextState, inWrite, nextValue, nextValueForLower24Bits, watchdogTimer, processed>>
             ELSE /\ ~StopAndRestartBlocks(watchdogTimer)
                  /\ processed' = Append(processed, [Message |-> m, type |-> type, state |-> nextState,
                                                     nextState |-> t.nextState,
                                                     messageToSend |-> t.messageToSend,
                                                     err |-> t.err])
                  /\ watchdogTimer' = StopAndRestart(watchdogTimer)
                  /\ nextState' = t.nextState
                  /\ IF t.err.Error # "none"
                     THEN IF t.err.initiateDisconnectPeer
                          THEN /\ BeginWrite("sm", generateDPR(localIdentity, nextValue, NextEndToEndId(nextValueForLower24Bits)))
                               /\ nextValue' = NextHopByHopId(nextValue)
                               /\ nextValueForLower24Bits' = nextValueForLower24Bits + 1
                               /\ Continue("WriteErrorDPR", received \o <<NotifyThatAnErrorOccurred(peer, t.err.Error)>>)
                          ELSE /\ Return(received \o <<NotifyThatAnErrorOccurred(peer, t.err.Error)>>, peer)
                               /\ UNCHANGED <<inWrite, nextValue, nextValueForLower24Bits>>
                     ELSE IF t.messageToSend # NoMessage
                          THEN /\ BeginWrite("sm", t.messageToSend)
                               /\ Continue("WriteAnswer", received)
                               /\ UNCHANGED <<nextValue, nextValueForLower24Bits>>
                          ELSE IF DiameterConnectionIsClosedInThisState(t.nextState)
                          THEN /\ Return(received, peer)
                               /\ UNCHANGED <<inWrite, nextValue, nextValueForLower24Bits>>
                          ELSE /\ Continue("Select", received)
                               /\ UNCHANGED <<inWrite, nextValue, nextValueForLower24Bits>>
    /\ UNCHANGED <<libraryVars, initialState, localIdentity, peer, peerIdentity, written, decoded, inputs, disconnectInitiated,
                   user, calls, outgoingEventChannel, delivered>>

\* The Write of the DPR that follows a protocol error returns; NewRun returns.
WriteErrorDPR ==
    /\ pc = "WriteErrorDPR"
    /\ LET w == WriteOf("sm")
       IN /\ EndWrite("sm")
          /\ IF SendStateMachineMessageError(w.res) # "nil"
             THEN Return(SendStateMachineMessageEvents(w.res, peer, w.msg)
                            \o <<NotifyThatAnErrorOccurred(peer, SendStateMachineMessageError(w.res))>>, peer)
             ELSE Return(SendStateMachineMessageEvents(w.res, peer, w.msg), peer)
    /\ UNCHANGED <<libraryVars, initialState, localIdentity, processed, nextState, peer, peerIdentity, messageReaderChannel, readerDone, decoded,
                   watchdogTimer, inputs, nextValue, nextValueForLower24Bits, disconnectInitiated, user, calls,
                   outgoingEventChannel, delivered>>

\* The Write of messageToSend (a DWA or a DPA) returns.
WriteAnswer ==
    /\ pc = "WriteAnswer"
    /\ LET w == WriteOf("sm")
       IN /\ EndWrite("sm")
          /\ IF SendStateMachineMessageError(w.res) # "nil"
             THEN Return(SendStateMachineMessageEvents(w.res, peer, w.msg)
                            \o <<NotifyThatAnErrorOccurred(peer, SendStateMachineMessageError(w.res))>>, peer)
             ELSE IF DiameterConnectionIsClosedInThisState(nextState)
             THEN Return(SendStateMachineMessageEvents(w.res, peer, w.msg), peer)
             ELSE Continue("Select", SendStateMachineMessageEvents(w.res, peer, w.msg))
    /\ UNCHANGED <<libraryVars, initialState, localIdentity, processed, nextState, peer, peerIdentity, messageReaderChannel, readerDone, decoded,
                   watchdogTimer, inputs, nextValue, nextValueForLower24Bits, disconnectInitiated, user, calls,
                   outgoingEventChannel, delivered>>

\* The timer fires: a value is put in watchdogTimer.C.
TimerFires ==
    /\ watchdogTimer = "active"
    /\ inputs < MaxInputs
    /\ watchdogTimer' = "fired"
    /\ inputs' = inputs + 1
    /\ UNCHANGED <<libraryVars, initialState, localIdentity, processed, pc, nextState, peer, peerIdentity, transportClosed, inWrite, written,
                   messageReaderChannel, readerDone, decoded, nextValue, nextValueForLower24Bits, disconnectInitiated,
                   user, calls, eventChannel, outgoingEventChannel, delivered>>

\* case <-watchdogTimer.C
SelectWatchdog ==
    /\ pc = "Select"
    /\ watchdogTimer = "fired"
    /\ watchdogTimer' = "read"
    /\ BeginWrite("sm", generateDWR(localIdentity, nextValue, NextEndToEndId(nextValueForLower24Bits)))
    /\ nextValue' = NextHopByHopId(nextValue)
    /\ nextValueForLower24Bits' = nextValueForLower24Bits + 1
    /\ pc' = "WriteDWR"
    /\ UNCHANGED <<libraryVars, initialState, localIdentity, processed, nextState, peer, peerIdentity, transportClosed, written,
                   messageReaderChannel, readerDone, decoded, inputs, disconnectInitiated,
                   user, calls, eventChannel, outgoingEventChannel, delivered>>

\* The Write of the DWR returns; the timer is restarted.
WriteDWR ==
    /\ pc = "WriteDWR"
    /\ LET w == WriteOf("sm")
       IN /\ EndWrite("sm")
          /\ IF SendStateMachineMessageError(w.res) # "nil"
             THEN Emit(SendStateMachineMessageEvents(w.res, peer, w.msg)
                          \o <<NotifyThatAnErrorOccurred(peer, SendStateMachineMessageError(w.res))>>)
             ELSE Emit(SendStateMachineMessageEvents(w.res, peer, w.msg))
    /\ watchdogTimer' = Restart(watchdogTimer)
    /\ pc' = IF Restart(watchdogTimer) = "panic" THEN "Panic" ELSE "Select"
    /\ UNCHANGED <<libraryVars, initialState, localIdentity, processed, nextState, peer, peerIdentity, transportClosed, messageReaderChannel,
                   readerDone, decoded, inputs, nextValue, nextValueForLower24Bits, disconnectInitiated, user, calls,
                   outgoingEventChannel, delivered>>

\* ------------------------------------------------------------- callers

\* Every event emitted so far, oldest first: read by the consumer, waiting
\* in Agent.outgoingEventChannel, or waiting in the state machine's channel.
Emitted == delivered \o outgoingEventChannel \o eventChannel

\* Peer.IsInAConnectedState: return false.
IsInAConnectedState == FALSE

\* Peer.IsDisconnected
IsDisconnected == ~IsInAConnectedState

\* The consumer takes the *Peer it calls from an event that carries one.
\* Agent.Run and the consumer can run as soon as the event is emitted, so
\* a call is possible from then on.
ConsumerHasPeer == \E i \in 1..Len(Emitted) : Emitted[i].Peer

\* Peer.InitiateDisconnect: the caller blocks sending on
\* disconnectNotificationChannel.
InitiateDisconnect(u) ==
    /\ user[u] = "idle"
    /\ ConsumerHasPeer
    /\ inputs < MaxInputs
    /\ inputs' = inputs + 1
    /\ user' = [user EXCEPT ![u] = "InitiateDisconnect"]
    /\ UNCHANGED <<libraryVars, initialState, localIdentity, processed, pc, nextState, peer, peerIdentity, transportClosed, inWrite, written,
                   messageReaderChannel, readerDone, decoded, watchdogTimer,
                   nextValue, nextValueForLower24Bits, disconnectInitiated, calls, eventChannel,
                   outgoingEventChannel, delivered>>

\* The messages a caller passes to Peer.SendMessage, with no identifiers set.
UserMessages ==
    { Message(0, OtherCode, TRUE, 0, 0, <<>>), Message(0, DeviceWatchdogCode, TRUE, 0, 0, <<>>) }

\* The same and requests that carry a hop-by-hop identifier, an end-to-end
\* identifier, or both.
UserMessagesWithIdentifiers ==
    UserMessages \cup
        { Message(0, OtherCode, TRUE, hbh, e2e, <<>>) : hbh \in {0, 7}, e2e \in {0, 9} }

\* Peer.SendMessage = SendMessageViaPeer up to transport.Write, in the
\* caller's task.
SendMessageViaPeer(u, m) ==
    /\ user[u] = "idle"
    /\ ConsumerHasPeer
    /\ inputs < MaxInputs
    /\ inputs' = inputs + 1
    /\ IF MessageIsADiameterConnectionStateMessage(m)
       THEN /\ CallReturns(u, "SendMessage", "state machine messages cannot be sent", "none", nextState)
            /\ UNCHANGED <<user, inWrite, nextValue, nextValueForLower24Bits>>
       ELSE /\ BeginWriteOf(u, m, [m EXCEPT
                    !.EndToEndID = IF @ = 0 THEN NextEndToEndId(nextValueForLower24Bits) ELSE @,
                    !.HopByHopID = IF @ = 0 THEN nextValue ELSE @])
            /\ nextValueForLower24Bits' =
                    IF m.EndToEndID = 0 THEN nextValueForLower24Bits + 1 ELSE nextValueForLower24Bits
            /\ nextValue' = IF m.HopByHopID = 0 THEN NextHopByHopId(nextValue) ELSE nextValue
            /\ user' = [user EXCEPT ![u] = "SendMessage"]
            /\ UNCHANGED calls
    /\ UNCHANGED <<libraryVars, initialState, localIdentity, processed, pc, nextState, peer, peerIdentity, transportClosed, written,
                   messageReaderChannel, readerDone, decoded, watchdogTimer,
                   disconnectInitiated, eventChannel, outgoingEventChannel, delivered>>

\* sendMessage in the caller's task: transport.Write returns.
sendMessage(u) ==
    /\ user[u] = "SendMessage"
    /\ LET w == WriteOf(u)
       IN /\ EndWrite(u)
          /\ Emit(sendMessageEvents(w.res, peer))
          /\ CallReturns(u, "SendMessage", sendMessageError(w.res), w.res, nextState)
    /\ user' = [user EXCEPT ![u] = "idle"]
    /\ UNCHANGED <<libraryVars, initialState, localIdentity, processed, pc, nextState, peer, peerIdentity, transportClosed, messageReaderChannel,
                   readerDone, decoded, watchdogTimer, inputs, nextValue, nextValueForLower24Bits,
                   disconnectInitiated, outgoingEventChannel, delivered>>

\* ----------------------------------------------------- Agent and consumer

AgentEvent(e) == [Type |-> e.Type, Peer |-> e.Peer, Error |-> e.Error, Message |-> e.Message]

\* Agent.Run forwarding the newest event of the channel instead of the oldest.
AgentRunNewestFirst ==
    /\ eventChannel # <<>>
    /\ Len(outgoingEventChannel) < OutgoingEventChannelCap
    /\ outgoingEventChannel' =
        Append(outgoingEventChannel, AgentEvent(eventChannel[Len(eventChannel)]))
    /\ eventChannel' = SubSeq(eventChannel, 1, Len(eventChannel) - 1)
    /\ UNCHANGED <<libraryVars, initialState, localIdentity, processed, pc, nextState, peer, peerIdentity, transportClosed, inWrite, written,
                   messageReaderChannel, readerDone, decoded, watchdogTimer, inputs,
                   nextValue, nextValueForLower24Bits, disconnectInitiated, user, calls, delivered>>

\* One turn of the loop of Agent.Run.
AgentRun ==
    /\ eventChannel # <<>>
    /\ Len(outgoingEventChannel) < OutgoingEventChannelCap
    /\ outgoingEventChannel' = Append(outgoingEventChannel, AgentEvent(Head(eventChannel)))
    /\ eventChannel' = Tail(eventChannel)
    /\ UNCHANGED <<libraryVars, initialState, localIdentity, processed, pc, nextState, peer, peerIdentity, transportClosed, inWrite, written,
                   messageReaderChannel, readerDone, decoded, watchdogTimer, inputs,
                   nextValue, nextValueForLower24Bits, disconnectInitiated, user, calls, delivered>>

\* The consumer reads an event from Agent.EventChannel().
Consume ==
    /\ outgoingEventChannel # <<>>
    /\ delivered' = Append(delivered, Head(outgoingEventChannel))
    /\ outgoingEventChannel' = Tail(outgoingEventChannel)
    /\ UNCHANGED <<libraryVars, initialState, localIdentity, processed, pc, nextState, peer, peerIdentity, transportClosed, inWrite, written,
                   messageReaderChannel, readerDone, decoded, watchdogTimer, inputs,
                   nextValue, nextValueForLower24Bits, disconnectInitiated, user, calls, eventChannel>>

\* ----------------------------------------------------------------- spec

Next ==
    \/ ReadNextMessage
    \/ ReadNextMessageFails
    \/ NewRunStart
    \/ ExecuteRead
    \/ ExecuteWrite
    \/ \E u \in Users : SelectDisconnect(u)
    \/ WriteDPR
    \/ SelectMessage
    \/ WriteErrorDPR
    \/ WriteAnswer
    \/ TimerFires
    \/ SelectWatchdog
    \/ WriteDWR
    \/ \E u \in Users : InitiateDisconnect(u)
    \/ \E u \in Users, m \in UserMessages : SendMessageViaPeer(u, m)
    \/ \E u \in Users : sendMessage(u)

Spec == Init /\ [][Next]_vars

\* The same tasks with Agent.Run and the consumer, in shorter runs.
NextAgent ==
    \/ Next /\ inputs' <= MaxAgentInputs
    \/ AgentRun
    \/ Consume

SpecAgent == Init /\ [][NextAgent]_vars

\* ------------------------------------------- a consumer that calls the Peer

\* How many messages the peer sends in a run of SpecConsumer.
MaxBurst == 63

\* How many events the consumer handles in a run of SpecConsumer.
MaxHandled == 3

\* What the peer sends there: the message the handshake expects, then
\* Device-Watchdog requests, and the answer to a Disconnect-Peer request
\* once it got one.
BurstMessages(n) ==
    IF n = 1
    THEN { Message(0, CapabilitiesExchangeCode, initialState = "ByPeer", n, n + n + 1,
                   PeerCapabilitiesAvps(PeerIdentity)) }
    ELSE IF \E k \in DOMAIN written["sm"] : written["sm"][k].msg.Code = DisconnectPeerCode
    THEN { Message(0, DisconnectPeerCode, FALSE, n, n + n + 1,
                   SubSeq(PeerCapabilitiesAvps(PeerIdentity), 1, 2)) }
    ELSE { Message(0, DeviceWatchdogCode, TRUE, n, n + n + 1,
                   SubSeq(PeerCapabilitiesAvps(PeerIdentity), 1, 2)) }

ReadNextMessageOfBurst ==
    /\ Len(decoded) < MaxBurst
    /\ ReadNextMessageFrom(BurstMessages(Len(decoded) + 1))
    /\ UNCHANGED inputs

\* The loop of main: the consumer reads the next event when it is done with
\* the one before, calls included.
ConsumeInTheEventLoop ==
    /\ \A u \in Users : user[u] = "idle"
    /\ Len(delivered) < MaxHandled
    /\ Consume

\* The consumer calls InitiateDisconnect on the Peer of the event it handles.
InitiateDisconnectInTheEventLoop(u) ==
    /\ delivered # <<>>
    /\ delivered[Len(delivered)].Peer
    /\ calls = <<>>
    /\ InitiateDisconnect(u)

\* NewRun, the reader, Agent.Run and a consumer that calls InitiateDisconnect
\* from its loop, on a transport that accepts every Write.
NextConsumer ==
    \/ ReadNextMessageOfBurst
    \/ NewRunStart /\ \A w \in inWrite' : w.res = "ok"
    \/ ExecuteRead /\ \A w \in inWrite' : w.res = "ok"
    \/ ExecuteWrite
    \/ SelectMessage /\ \A w \in inWrite' : w.res = "ok"
    \/ WriteAnswer
    \/ \E u \in Users : SelectDisconnect(u) /\ \A w \in inWrite' : w.res = "ok"
    \/ WriteDPR
    \/ \E u \in Users : InitiateDisconnectInTheEventLoop(u)
    \/ AgentRun
    \/ ConsumeInTheEventLoop

\* Agent.AcceptDiameterConnectionFrom
InitConsumer ==
    /\ newPeerStateManager(DefaultLocalIdentity)
    /\ initialState = "ByPeer"
    /\ NewLibraryValues
    /\ sentMessages = <<>>

SpecConsumer == InitConsumer /\ [][NextConsumer]_vars

\* The same with what the scheduling of the tasks gives: a task that can
\* take its next step takes it (NewRun, the writes to the transport, which
\* return), and select, which picks at random among the cases that are
\* ready, does not leave out the case of a waiting caller for ever.  The
\* peer, the timer and the callers owe nothing.
Fairness ==
    /\ WF_vars(NewRunStart)
    /\ WF_vars(ExecuteRead)
    /\ WF_vars(ExecuteWrite)
    /\ WF_vars(WriteDPR)
    /\ WF_vars(SelectMessage)
    /\ WF_vars(WriteErrorDPR)
    /\ WF_vars(WriteAnswer)
    /\ WF_vars(SelectWatchdog)
    /\ WF_vars(WriteDWR)
    /\ \A u \in Users : SF_vars(SelectDisconnect(u))
    /\ \A u \in Users : WF_vars(sendMessage(u))

SpecTermination == Init /\ [][Next]_vars /\ Fairness

\* The tasks of a peer connection with callers that set identifiers.
NextSend ==
    \/ ReadNextMessage
    \/ ReadNextMessageFails
    \/ NewRunStart
    \/ ExecuteRead
    \/ ExecuteWrite
    \/ \E u \in Users : SelectDisconnect(u)
    \/ WriteDPR
    \/ SelectMessage
    \/ WriteErrorDPR
    \/ WriteAnswer
    \/ TimerFires
    \/ SelectWatchdog
    \/ WriteDWR
    \/ \E u \in Users : InitiateDisconnect(u)
    \/ \E u \in Users, m \in UserMessagesWithIdentifiers : SendMessageViaPeer(u, m)
    \/ \E u \in Users : sendMessage(u)

SpecSend == Init /\ [][NextSend]_vars

\* The identities an agent is configured with in the runs of the handshake:
\* host "h1" in realm "r1", or both named "h1", with an IPv4 address, an
\* IPv6 address, or two addresses.
LocalIdentities ==
    { DiameterEntity(<<104, 49>>, realm, ips, 193, <<97>>) :
        realm \in {<<114, 49>>, <<104, 49>>},
        ips \in {<<IPv4Address>>, <<IPv6Address>>, <<IPv4Address, OtherIPv4Address>>,
                 <<IPv4Address, IPv6Address>>} }

InitHandshake ==
    /\ \E identity \in LocalIdentities : newPeerStateManager(identity)
    /\ NewLibraryValues /\ sentMessages = <<>>

\* NewRun up to the end of initialState.Execute, with the reader task.
NextHandshake ==
    \/ ReadNextMessage
    \/ ReadNextMessageFails
    \/ NewRunStart
    \/ ExecuteRead
    \/ ExecuteWrite

SpecHandshake == InitHandshake /\ [][NextHandshake]_vars


\* ------------------------------------------------- the MessageByteReader

\* How many messages a byte stream holds at most.
MaxMessages == 2

\* Message.Encode
Encode(m) ==
    <<m.Version % 256>> \o PutUint24(m.Length)
        \o <<m.Flags % 256>> \o PutUint24(m.Code)
        \o PutUint32(m.AppID) \o PutUint32(m.HopByHopID) \o PutUint32(m.EndToEndID)
        \o EncodeAVPs(m.Avps)

\* The loop of DecodeMessage over the AVPs.
RECURSIVE DecodeAVPs(_)
DecodeAVPs(b) ==
    IF Len(b) = 0
    THEN [err |-> FALSE, panic |-> FALSE, avps |-> <<>>]
    ELSE LET d == DecodeAVP(b)
         IN IF d.err
            THEN [err |-> TRUE, panic |-> d.panic, avps |-> <<>>]
            ELSE IF d.PaddedLength > Len(b)
            THEN [err |-> TRUE, panic |-> TRUE, avps |-> <<>>]
            ELSE LET rest == DecodeAVPs(From(b, d.PaddedLength + 1))
                 IN [err |-> rest.err, panic |-> rest.panic, avps |-> <<d.avp>> \o rest.avps]

\* DecodeMessage.  err: no message is returned; panic: because the call
\* panicked, at input[MsgHeaderSize:int(m.Length)] when the length of the
\* header is below 20, in DecodeAVP, or at b[avp.PaddedLength:] when the
\* padding of the last AVP is not in the body.
DecodeMessage(input) ==
    LET length == Uint24(From(input, 2))
        failure == [err |-> TRUE, panic |-> FALSE, m |-> NoMessage, Length |-> 0]
    IN IF Len(input) < 4
       THEN failure
       ELSE IF Len(input) < length \/ Len(input) < 20
       THEN [failure EXCEPT !.Length = length]
       ELSE IF length < 20
       THEN [failure EXCEPT !.Length = length, !.panic = TRUE]
       ELSE LET d == DecodeAVPs(SubSeq(input, 21, length))
            IN [err |-> d.err, panic |-> d.panic,
                m |-> [Version |-> input[1], Length |-> length, Flags |-> input[5],
                       Code |-> Uint24(From(input, 6)), AppID |-> Uint32(From(input, 9)),
                       HopByHopID |-> Uint32(From(input, 13)),
                       EndToEndID |-> Uint32(From(input, 17)), Avps |-> d.avps],
                Length |-> length]

\* ------------------------------------------------ decoding of any bytes

\* The 20 bytes of a header that declares this length.
HeaderBytes(length) ==
    <<1>> \o PutUint24(length) \o <<MsgFlagRequest>> \o PutUint24(CapabilitiesExchangeCode)
        \o PutUint32(0) \o PutUint32(1) \o PutUint32(2)

\* An AVP header with these flags and this length field, with n bytes after it.
AvpBytes(flags, length, n) ==
    PutUint32(264) \o <<flags>> \o PutUint24(length) \o [i \in 1..n |-> 7]

\* Encoded AVPs, well formed or not: with and without the V bit, a length
\* field of 0, below the header's length, equal to it, above it, not a
\* multiple of four, and with fewer or more bytes than it says.
GivenAvps ==
    { AvpBytes(flags, length, n) :
        flags \in {64, 192}, length \in {0, 7, 8, 9, 12, 13}, n \in {0, 1, 4, 5, 8} }

\* No AVP, one, or two.
GivenBodies ==
    {<<>>} \cup GivenAvps \cup { a \o AvpBytes(64, 9, n) : a \in GivenAvps, n \in {1, 4} }

\* What is passed to DecodeMessage: a header that declares the length of
\* what follows it, less, more, or less than a header, and what is left of
\* a header that was cut.
GivenBuffers ==
    { HeaderBytes(length) \o body :
        length \in {0, 19, 20, 24, 28, 29, 32, 36, 40, 44, 48}, body \in GivenBodies }
    \cup { SubSeq(HeaderBytes(20), 1, n) : n \in {0, 3, 4, 8, 19} }

InitDecoder ==
    /\ newPeerStateManager(DefaultLocalIdentity) /\ initialState = "ByPeer"
    /\ NewMessageByteReader /\ NewMessageStreamReader /\ sentMessages = <<>>
    /\ NewSequenceGeneratorSet(<<0, 1000>>, <<0, 5000>>, 1)
    /\ original = NoMessage /\ obtained = <<>>
    /\ givenBytes \in GivenBuffers
    /\ decodings = <<>>
    /\ NoLookup

\* DecodeMessage(givenBytes)
CallDecodeMessage ==
    /\ \A k \in DOMAIN decodings : decodings[k].op # "DecodeMessage"
    /\ LET d == DecodeMessage(givenBytes)
       IN decodings' = Append(decodings,
                              [op |-> "DecodeMessage", of |-> givenBytes,
                               outcome |-> IF d.panic THEN "panic" ELSE IF d.err THEN "error" ELSE "value",
                               avps |-> IF d.err THEN 0 ELSE Len(d.m.Avps)])
    /\ UNCHANGED <<givenBytes, besidesDecoder>>

\* DecodeAVP of what follows the header.
CallDecodeAVP ==
    /\ \A k \in DOMAIN decodings : decodings[k].op # "DecodeAVP"
    /\ LET d == DecodeAVP(From(givenBytes, 21))
       IN decodings' = Append(decodings,
                              [op |-> "DecodeAVP", of |-> From(givenBytes, 21),
                               outcome |-> IF d.panic THEN "panic" ELSE IF d.err THEN "error" ELSE "value",
                               avps |-> IF d.err THEN 0 ELSE 1])
    /\ UNCHANGED <<givenBytes, besidesDecoder>>

NextDecoder ==
    \/ CallDecodeMessage
    \/ CallDecodeAVP

SpecDecoder == InitDecoder /\ [][NextDecoder]_vars

\* --------------------------------------------- lookups of AVPs by code

\* How many lookups a caller makes and how many AVPs the message has at most.
MaxLookups == 2
MaxAvps == 2

\* The AVP objects a caller has: a *AVP is a place in this sequence.
IndexedAvps ==
    << NewAVP(264, 0, TRUE, <<104>>), NewAVP(264, 0, TRUE, <<105>>),
       NewAVP(264, 10415, TRUE, <<104>>) >>

\* AvpVendorIdAndCode of the lookups: the ones of the objects and one more.
VendorIdsAndCodes == { <<0, 264>>, <<10415, 264>>, <<0, 296>> }

\* GenerateMapOfAvpsByVendorAndCode: under each key the AVPs of avps with
\* that vendor-id and code, in their order; a key that is not in the map
\* reads as an empty slice.
GenerateMapOfAvpsByVendorAndCode(avps) ==
    [ key \in VendorIdsAndCodes |->
        SelectSeq(avps, LAMBDA p : <<IndexedAvps[p].VendorID, IndexedAvps[p].Code>> = key) ]

\* if m.mapOfAvpsByVendorAndCode == nil { m.mapOfAvpsByVendorAndCode = ... }
MapAfterLookup ==
    IF mapOfAvpsByVendorAndCode.nil
    THEN [nil |-> FALSE, slices |-> GenerateMapOfAvpsByVendorAndCode(topLevelAvps)]
    ELSE mapOfAvpsByVendorAndCode

\* A lookup with its result, and what a scan of Message.Avps gives.
Lookup(op, key, result, scan) == [op |-> op, key |-> key, result |-> result, scan |-> scan]

\* Message.FirstAvpMatching; 0 is nil.
CallFirstAvpMatching(key) ==
    /\ Len(lookups) < MaxLookups
    /\ mapOfAvpsByVendorAndCode' = MapAfterLookup
    /\ LET avpSet == MapAfterLookup.slices[key]
           scanned == GenerateMapOfAvpsByVendorAndCode(topLevelAvps)[key]
       IN lookups' = Append(lookups,
                Lookup("FirstAvpMatching", key,
                       IF Len(avpSet) = 0 THEN 0 ELSE avpSet[1],
                       IF Len(scanned) = 0 THEN 0 ELSE scanned[1]))
    /\ UNCHANGED <<topLevelAvps, besidesIndex>>

\* Message.TopLevelAvpsMatching: the slice of the map is returned.
CallTopLevelAvpsMatching(key) ==
    /\ Len(lookups) < MaxLookups
    /\ mapOfAvpsByVendorAndCode' = MapAfterLookup
    /\ lookups' = Append(lookups,
            Lookup("TopLevelAvpsMatching", key, MapAfterLookup.slices[key],
                   GenerateMapOfAvpsByVendorAndCode(topLevelAvps)[key]))
    /\ UNCHANGED <<topLevelAvps, besidesIndex>>

\* Message.NumberOfTopLevelAvpsMatching, of which HasATopLevelAvpMatching
\* and DoesNotHaveATopLevelAvpMatching are the comparisons with 0.
CallNumberOfTopLevelAvpsMatching(key) ==
    /\ Len(lookups) < MaxLookups
    /\ mapOfAvpsByVendorAndCode' = MapAfterLookup
    /\ lookups' = Append(lookups,
            Lookup("NumberOfTopLevelAvpsMatching", key, Len(MapAfterLookup.slices[key]),
                   Len(GenerateMapOfAvpsByVendorAndCode(topLevelAvps)[key])))
    /\ UNCHANGED <<topLevelAvps, besidesIndex>>

\* The caller changes the exported field: m.Avps = append(m.Avps, avp)
AppendToAvps(p) ==
    /\ Len(topLevelAvps) < MaxAvps
    /\ topLevelAvps' = Append(topLevelAvps, p)
    /\ UNCHANGED <<mapOfAvpsByVendorAndCode, lookups, besidesIndex>>

\* m.Avps = m.Avps[1:]
RemoveFromAvps ==
    /\ topLevelAvps # <<>>
    /\ topLevelAvps' = Tail(topLevelAvps)
    /\ UNCHANGED <<mapOfAvpsByVendorAndCode, lookups, besidesIndex>>

\* The caller assigns to the first element of a slice TopLevelAvpsMatching
\* returned: the slice shares its array with the slice in the map.
WriteToReturnedSlice(key, p) ==
    /\ \E k \in DOMAIN lookups :
            /\ lookups[k].op = "TopLevelAvpsMatching"
            /\ lookups[k].key = key
            /\ lookups[k].result # <<>>
    /\ mapOfAvpsByVendorAndCode.slices[key][1] # p
    /\ mapOfAvpsByVendorAndCode' = [mapOfAvpsByVendorAndCode EXCEPT !.slices[key][1] = p]
    /\ UNCHANGED <<topLevelAvps, lookups, besidesIndex>>

\* A message as NewMessage or DecodeMessage made it, with no map yet.
InitIndex ==
    /\ newPeerStateManager(DefaultLocalIdentity) /\ initialState = "ByPeer"
    /\ NewMessageByteReader /\ NewMessageStreamReader /\ sentMessages = <<>>
    /\ NewSequenceGeneratorSet(<<0, 1000>>, <<0, 5000>>, 1)
    /\ original = NoMessage /\ obtained = <<>>
    /\ NoDecoding
    /\ topLevelAvps \in { <<>>, <<1>>, <<1, 3>>, <<1, 2>> }
    /\ mapOfAvpsByVendorAndCode = [nil |-> TRUE]
    /\ lookups = <<>>

NextIndex ==
    \/ \E key \in VendorIdsAndCodes : CallFirstAvpMatching(key)
    \/ \E key \in VendorIdsAndCodes : CallTopLevelAvpsMatching(key)
    \/ \E key \in VendorIdsAndCodes : CallNumberOfTopLevelAvpsMatching(key)
    \/ \E p \in DOMAIN IndexedAvps : AppendToAvps(p)
    \/ RemoveFromAvps
    \/ \E key \in VendorIdsAndCodes, p \in DOMAIN IndexedAvps : WriteToReturnedSlice(key, p)

SpecIndex == InitIndex /\ [][NextIndex]_vars

\* extractNextMessageInByteBufferIfThereIsOne with the bytes after the
\* message thrown away.
extractNextMessageAndDropTheRest(incoming) ==
    IF Len(incoming) < 20 \/ Len(incoming) < Uint24(From(incoming, 2))
    THEN [m |-> NoMessage, rest |-> incoming, err |-> FALSE]
    ELSE [m |-> DecodeMessage(incoming).m, rest |-> <<>>, err |-> FALSE]

\* m is NoMessage when nil is returned for the message.
extractNextMessageInByteBufferIfThereIsOne(incoming) ==
    IF Len(incoming) = 0
    THEN [m |-> NoMessage, rest |-> incoming, err |-> FALSE]
    ELSE IF Len(incoming) < 20
    THEN [m |-> NoMessage, rest |-> incoming, err |-> incoming[1] # 1]
    ELSE IF incoming[1] # 1
    THEN [m |-> NoMessage, rest |-> incoming, err |-> TRUE]
    ELSE IF Len(incoming) < Uint24(From(incoming, 2))
    THEN [m |-> NoMessage, rest |-> incoming, err |-> FALSE]
    ELSE LET d == DecodeMessage(incoming)
         IN IF d.err
            THEN [m |-> NoMessage, rest |-> incoming, err |-> TRUE]
            ELSE [m |-> d.m, rest |-> From(incoming, d.Length + 1), err |-> FALSE]

\* The loop of ReceiveBytes over ReceiveBytesButReturnAtMostOneMessage, from
\* this buffer: the messages returned, the buffer left, and the error.
RECURSIVE ReceiveBytesLoop(_)
ReceiveBytesLoop(buffer) ==
    LET next == extractNextMessageInByteBufferIfThereIsOne(buffer)
    IN IF next.err
       THEN [messages |-> <<>>, buffer |-> buffer, err |-> TRUE]
       ELSE IF next.m = NoMessage
       THEN [messages |-> <<>>, buffer |-> buffer, err |-> FALSE]
       ELSE LET more == ReceiveBytesLoop(next.rest)
            IN [messages |-> IF more.err THEN <<>> ELSE <<next.m>> \o more.messages,
                buffer |-> more.buffer, err |-> more.err]

ReceiveBytes(buffer, incoming) == ReceiveBytesLoop(buffer \o incoming)

\* The messages of the streams: a header alone, one AVP with padding, and
\* two AVPs, the second vendor-specific.
StreamMessages ==
    { Message(0, DeviceWatchdogCode, TRUE, 1, 2, <<>>),
      Message(0, DisconnectPeerCode, FALSE, 3, 4, <<AVP(268, PutUint32(2001)), AVP(264, <<104>>)>>),
      Message(4, OtherCode, TRUE, 5, 6, <<NewAVP(1, 10415, TRUE, <<7, 8>>)>>) }

RECURSIVE EncodeAll(_)
EncodeAll(messages) ==
    IF messages = <<>> THEN <<>> ELSE Encode(Head(messages)) \o EncodeAll(Tail(messages))

\* The byte stream: the encodings of the messages, one after the other.
Stream == EncodeAll(sentMessages)

\* Where in the stream the i-th message ends.
EndOf(i) == Len(EncodeAll(SubSeq(sentMessages, 1, i)))

InitReader ==
    /\ newPeerStateManager(DefaultLocalIdentity) /\ initialState = "ByPeer"
    /\ NewLibraryValues
    /\ sentMessages \in UNION { [1..n -> StreamMessages] : n \in 1..MaxMessages }

\* ReceiveBytes is called with the next n bytes of the stream.  cases
\* records whether a chunk ended inside a header, inside the AVPs of a
\* message, and whether a call returned several messages.
ReceiveBytesOfChunk(n) ==
    /\ ~failed
    /\ pushed + n <= Len(Stream)
    /\ LET r == ReceiveBytes(incomingBuffer, SubSeq(Stream, pushed + 1, pushed + n))
           end == pushed + n
           started == { i \in 0..Len(sentMessages) : EndOf(i) <= end }
           start == EndOf(CHOOSE i \in started : \A j \in started : j <= i)
       IN /\ pushed' = end
          /\ incomingBuffer' = r.buffer
          /\ extractedMessages' = extractedMessages \o r.messages
          /\ failed' = r.err
          /\ cases' = cases
                \cup (IF end - start \in 1..19 THEN {"header"} ELSE {})
                \cup (IF end - start > 20 THEN {"avp"} ELSE {})
                \cup (IF Len(r.messages) >= 2 THEN {"several"} ELSE {})
    /\ UNCHANGED <<sentMessages, besidesReader>>

NextReader == \E n \in 1..Len(Stream) : ReceiveBytesOfChunk(n)

SpecReader == InitReader /\ [][NextReader]_vars

\* ------------------------------------------------ the MessageStreamReader

\* How many calls of ReadNextMessage are followed after the messages.
MaxFailedReads == 2

\* What underlyingReader.Read(readBuffer) can return (io.Reader): some of
\* the bytes left with a nil error, no bytes with an error (io.EOF at the
\* end of the stream or before it, or a failure), or bytes together with
\* io.EOF; after an error, the same error again.  The stream is shorter
\* than readBuffer.
Reads ==
    IF underlyingReader.err # "nil"
    THEN {[n |-> 0, err |-> underlyingReader.err]}
    ELSE LET left == Len(Stream) - underlyingReader.handedOut
         IN {[n |-> n, err |-> "nil"] : n \in 1..left}
            \cup {[n |-> 0, err |-> e] : e \in {"EOF", "failure"}}
            \cup {[n |-> n, err |-> "EOF"] : n \in 1..left}

\* MessageStreamReader.ReadOnce, one turn of the loop of ReadNextMessage:
\* a message of internalByteBuffer is returned; or Read is called, and its
\* error is returned or its bytes are appended and the loop goes on.
\* returned holds what the turns returned that ended a ReadNextMessage.
ReadOnce ==
    /\ Len(returned) < Len(sentMessages) + MaxFailedReads
    /\ LET next == extractNextMessageInByteBufferIfThereIsOne(internalByteBuffer)
       IN IF next.err
          THEN /\ returned' = Append(returned, [m |-> NoMessage, err |-> "malformed"])
               /\ UNCHANGED <<internalByteBuffer, underlyingReader>>
          ELSE IF next.m # NoMessage
          THEN /\ internalByteBuffer' = next.rest
               /\ returned' = Append(returned, [m |-> next.m, err |-> "nil"])
               /\ UNCHANGED underlyingReader
          ELSE \E r \in Reads :
               /\ underlyingReader' =
                      [handedOut |-> underlyingReader.handedOut + r.n,
                       err |-> r.err,
                       reads |-> underlyingReader.reads + (IF r.n > 0 THEN 1 ELSE 0),
                       lost |-> underlyingReader.lost + (IF r.err # "nil" THEN r.n ELSE 0)]
               /\ IF r.err # "nil"
                  THEN /\ returned' = Append(returned, [m |-> NoMessage, err |-> r.err])
                       /\ UNCHANGED internalByteBuffer
                  ELSE /\ internalByteBuffer' = internalByteBuffer \o
                              SubSeq(Stream, underlyingReader.handedOut + 1,
                                     underlyingReader.handedOut + r.n)
                       /\ UNCHANGED returned
    /\ UNCHANGED besidesStream

InitStream ==
    /\ newPeerStateManager(DefaultLocalIdentity) /\ initialState = "ByPeer"
    /\ NewLibraryValues
    /\ sentMessages \in UNION { [1..n -> StreamMessages] : n \in 1..MaxMessages }

NextStream == ReadOnce

SpecStream == InitStream /\ [][NextStream]_vars

\* ------------------------------------------------- the SequenceGenerator

\* How many calls of Next the callers make, and how many seconds pass.
MaxCalls == 4
MaxTicks == 1

\* v + 1 of a uint32 kept as <<high half, low half>>: it wraps to 0 after
\* 0xffffffff.
Increment32(v) ==
    IF v[2] = 65535 THEN <<(v[1] + 1) % 65536, 0>> ELSE <<v[1], v[2] + 1>>

RECURSIVE Plus32(_, _)
Plus32(v, k) == IF k = 0 THEN v ELSE Plus32(Increment32(v), k - 1)

\* mu.Lock() taking a mutex that any task holds.
MutexLockWithoutExclusion(mu) == TRUE

\* mu.Lock() returns only while no task holds the mutex.
MutexLock(mu) == mu = "unlocked"

\* ((uint32(now) & 0xff) << 24) | n, the counter not masked.
ComposeEndToEndIdWithoutMask(now, n) == <<((now % 256) * 256 + n[1]) % 65536, n[2]>>

\* ((uint32(now) & 0xff) << 24) | (n & 0x00ffffff)
ComposeEndToEndId(now, n) == <<(now % 256) * 256 + (n[1] % 256), n[2]>>

\* Values rand.Int(rand.Reader, big.NewInt(0xffffffff)) can return: one
\* whose low half is about to wrap (0x0000ffff), the greatest one
\* (0xfffffffe), and one above 24 bits whose low 24 bits are about to wrap
\* (0x11fffffe).
Seeds == { <<0, 65535>>, <<65535, 65534>>, <<4607, 65534>> }

\* The seconds at which a generator is created: the low eight bits are
\* about to wrap, or not.
Seconds == { 1000, 1023 }

CallsMade == Len(handedOut) + Cardinality({c \in GeneratorCallers : callerPc[c] # "idle"})

\* A task calls NextHopByHopId() = hbhGenerator.Next().
CallNextHopByHopId(c) ==
    /\ callerPc[c] = "idle"
    /\ CallsMade < MaxCalls
    /\ callerPc' = [callerPc EXCEPT ![c] = "hbh.Lock"]
    /\ local' = [local EXCEPT ![c].from = clock]
    /\ UNCHANGED <<hbhGenerator, eteGenerator, clock, handedOut, seeds, besidesGenerators>>

\* g.mu.Lock()
HopByHopLock(c) ==
    /\ callerPc[c] = "hbh.Lock"
    /\ MutexLock(hbhGenerator.mu)
    /\ hbhGenerator' = [hbhGenerator EXCEPT !.mu = c]
    /\ callerPc' = [callerPc EXCEPT ![c] = "hbh.n"]
    /\ UNCHANGED <<eteGenerator, clock, local, handedOut, seeds, besidesGenerators>>

\* n := g.nextValue
HopByHopRead(c) ==
    /\ callerPc[c] = "hbh.n"
    /\ local' = [local EXCEPT ![c].n = hbhGenerator.nextValue]
    /\ callerPc' = [callerPc EXCEPT ![c] = "hbh.++"]
    /\ UNCHANGED <<hbhGenerator, eteGenerator, clock, handedOut, seeds, besidesGenerators>>

\* g.nextValue++
HopByHopIncrement(c) ==
    /\ callerPc[c] = "hbh.++"
    /\ hbhGenerator' = [hbhGenerator EXCEPT !.nextValue = Increment32(@)]
    /\ callerPc' = [callerPc EXCEPT ![c] = "hbh.return"]
    /\ UNCHANGED <<eteGenerator, clock, local, handedOut, seeds, besidesGenerators>>

\* return n, and the deferred g.mu.Unlock()
HopByHopReturn(c) ==
    /\ callerPc[c] = "hbh.return"
    /\ hbhGenerator' = [hbhGenerator EXCEPT !.mu = "unlocked"]
    /\ handedOut' = Append(handedOut,
            [by |-> c, id |-> "hbh", value |-> local[c].n, n |-> local[c].n,
             from |-> local[c].from, to |-> clock])
    /\ callerPc' = [callerPc EXCEPT ![c] = "idle"]
    /\ UNCHANGED <<eteGenerator, clock, local, seeds, besidesGenerators>>

\* A task calls NextEndToEndId() = eteGenerator.Next().
CallNextEndToEndId(c) ==
    /\ callerPc[c] = "idle"
    /\ CallsMade < MaxCalls
    /\ callerPc' = [callerPc EXCEPT ![c] = "ete.now"]
    /\ local' = [local EXCEPT ![c].from = clock]
    /\ UNCHANGED <<hbhGenerator, eteGenerator, clock, handedOut, seeds, besidesGenerators>>

\* now := time.Now().Unix()
EndToEndNow(c) ==
    /\ callerPc[c] = "ete.now"
    /\ local' = [local EXCEPT ![c].now = clock]
    /\ callerPc' = [callerPc EXCEPT ![c] = "ete.Lock"]
    /\ UNCHANGED <<hbhGenerator, eteGenerator, clock, handedOut, seeds, besidesGenerators>>

\* g.mu.Lock()
EndToEndLock(c) ==
    /\ callerPc[c] = "ete.Lock"
    /\ MutexLock(eteGenerator.mu)
    /\ eteGenerator' = [eteGenerator EXCEPT !.mu = c]
    /\ callerPc' = [callerPc EXCEPT ![c] = "ete.n"]
    /\ UNCHANGED <<hbhGenerator, clock, local, handedOut, seeds, besidesGenerators>>

\* n := g.nextValueForLower24Bits
EndToEndRead(c) ==
    /\ callerPc[c] = "ete.n"
    /\ local' = [local EXCEPT ![c].n = eteGenerator.nextValueForLower24Bits]
    /\ callerPc' = [callerPc EXCEPT ![c] = "ete.++"]
    /\ UNCHANGED <<hbhGenerator, eteGenerator, clock, handedOut, seeds, besidesGenerators>>

\* g.nextValueForLower24Bits++ and g.mu.Unlock()
EndToEndIncrement(c) ==
    /\ callerPc[c] = "ete.++"
    /\ eteGenerator' = [eteGenerator EXCEPT !.nextValueForLower24Bits = Increment32(@),
                                            !.mu = "unlocked"]
    /\ callerPc' = [callerPc EXCEPT ![c] = "ete.return"]
    /\ UNCHANGED <<hbhGenerator, clock, local, handedOut, seeds, besidesGenerators>>

\* return ((uint32(now) & 0xff) << 24) | (n & 0x00ffffff)
EndToEndReturn(c) ==
    /\ callerPc[c] = "ete.return"
    /\ handedOut' = Append(handedOut,
            [by |-> c, id |-> "ete", value |-> ComposeEndToEndId(local[c].now, local[c].n),
             n |-> local[c].n, from |-> local[c].from, to |-> clock])
    /\ callerPc' = [callerPc EXCEPT ![c] = "idle"]
    /\ UNCHANGED <<hbhGenerator, eteGenerator, clock, local, seeds, besidesGenerators>>

\* A second passes.
Tick ==
    /\ clock < seeds.second + MaxTicks
    /\ clock' = clock + 1
    /\ UNCHANGED <<hbhGenerator, eteGenerator, callerPc, local, handedOut, seeds, besidesGenerators>>

InitGenerators ==
    /\ newPeerStateManager(DefaultLocalIdentity) /\ initialState = "ByPeer"
    /\ NewMessageByteReader /\ NewMessageStreamReader /\ sentMessages = <<>>
    /\ original = NoMessage /\ obtained = <<>> /\ NoDecoding /\ NoLookup
    /\ \E hbhSeed \in Seeds, eteSeed \in Seeds, second \in Seconds :
            NewSequenceGeneratorSet(hbhSeed, eteSeed, second)

NextGenerators ==
    \/ \E c \in GeneratorCallers : CallNextHopByHopId(c)
    \/ \E c \in GeneratorCallers : HopByHopLock(c)
    \/ \E c \in GeneratorCallers : HopByHopRead(c)
    \/ \E c \in GeneratorCallers : HopByHopIncrement(c)
    \/ \E c \in GeneratorCallers : HopByHopReturn(c)
    \/ \E c \in GeneratorCallers : CallNextEndToEndId(c)
    \/ \E c \in GeneratorCallers : EndToEndNow(c)
    \/ \E c \in GeneratorCallers : EndToEndLock(c)
    \/ \E c \in GeneratorCallers : EndToEndRead(c)
    \/ \E c \in GeneratorCallers : EndToEndIncrement(c)
    \/ \E c \in GeneratorCallers : EndToEndReturn(c)
    \/ Tick

SpecGenerators == InitGenerators /\ [][NextGenerators]_vars

\* ------------------------------------------- messages built and obtained

\* How many messages are obtained from the one built.
MaxObtained == 2

\* AVP.MakeProtected
MakeProtected(avp) == [avp EXCEPT !.Protected = TRUE]

\* The AVPs of the messages: one byte of data and three of padding; a
\* vendor-specific one without the M flag and without padding; a protected
\* one with two bytes of padding; one without data.
MessageAvps ==
    { NewAVP(264, 0, TRUE, <<104>>),
      NewAVP(1, 10415, FALSE, <<7, 8, 9, 10>>),
      MakeProtected(NewAVP(268, 0, FALSE, <<1, 2>>)),
      NewAVP(300, 0, TRUE, <<>>) }

AvpLists == UNION { [1..n -> MessageAvps] : n \in 0..2 }

\* The messages NewMessage is asked for: no flag, R, or every flag and the
\* four reserved bits; a code of 24 bits or more; the AVPs given as
\* mandatory up to a place of the list and as additional after it.
BuiltMessages ==
    UNION { { NewMessage(flags, code, appID, hopByHopID, 2,
                         SubSeq(avps, 1, k), SubSeq(avps, k + 1, Len(avps))) :
                flags \in {0, 128, 255}, code \in {272, 16777221}, appID \in {4},
                hopByHopID \in {1, 2147483647}, k \in 0..Len(avps) } :
            avps \in AvpLists }

HasNilAvp(m) == \E i \in DOMAIN m.Avps : m.Avps[i] = NilAVP

\* AVP.Clone: a copy of the struct with a copy of the data.
CloneAVP(avp) == [avp EXCEPT !.Data = [i \in 1..Len(avp.Data) |-> avp.Data[i]]]

\* Message.Clone: clonedAvps := make([]*AVP, len(m.Avps)) is len(m.Avps)
\* nil entries, and the clones are appended to them.
Clone(m) ==
    [m EXCEPT !.Avps = [i \in 1..Len(m.Avps) |-> NilAVP]
                        \o [i \in DOMAIN m.Avps |-> CloneAVP(m.Avps[i])]]

\* AVP.Equal, a not nil (Protected is not compared).
AvpEqual(avp, a) ==
    /\ avp.Code = a.Code /\ avp.VendorSpecific = a.VendorSpecific
    /\ avp.Mandatory = a.Mandatory /\ avp.VendorID = a.VendorID
    /\ avp.Length = a.Length /\ avp.PaddedLength = a.PaddedLength
    /\ avp.Data = a.Data

\* The loop of Message.Equals from the i-th AVP on: calling Equal on a nil
\* AVP of m panics, and a nil AVP of c is not equal to any.
RECURSIVE AvpsEqualFrom(_, _, _)
AvpsEqualFrom(m, c, i) ==
    IF i > Len(m.Avps) THEN "true"
    ELSE IF m.Avps[i] = NilAVP THEN "panic"
    ELSE IF c.Avps[i] = NilAVP THEN "false"
    ELSE IF ~AvpEqual(m.Avps[i], c.Avps[i]) THEN "false"
    ELSE AvpsEqualFrom(m, c, i + 1)

\* Message.Equals (Length is not compared).
Equals(m, c) ==
    IF \/ m.Version # c.Version \/ m.Flags # c.Flags \/ m.Code # c.Code
       \/ m.AppID # c.AppID \/ m.HopByHopID # c.HopByHopID \/ m.EndToEndID # c.EndToEndID
    THEN "false"
    ELSE IF Len(m.Avps) # Len(c.Avps) THEN "false"
    ELSE AvpsEqualFrom(m, c, 1)

\* The AVP objects the messages obtained so far point to (0: nil).
AvpObjects == UNION { { obtained[k].objects[i] : i \in DOMAIN obtained[k].objects } :
                      k \in DOMAIN obtained }

NewObjects(n) ==
    LET last == CHOOSE o \in AvpObjects \cup {0} : \A p \in AvpObjects : p <= o
    IN [i \in 1..n |-> last + i]

\* A message (or value) obtained by op from the of-th one, which was src
\* then: the result, the objects its AVPs are, how the call ended, and the
\* messages through which an AVP of it was changed since.
Obtained(op, of, src, m, objects, status, value) ==
    [op |-> op, of |-> of, src |-> src, m |-> m, objects |-> objects, status |-> status,
     value |-> value, touchedBy |-> {}]

Usable(k) ==
    /\ k \in DOMAIN obtained
    /\ obtained[k].status = "ok"
    /\ obtained[k].op # "ConvertAVPDataToTypedData"
    /\ Len(obtained) < 1 + MaxObtained

\* DecodeMessage(m.Encode()); Encode of a message with a nil AVP panics.
EncodeAndDecode(k) ==
    /\ Usable(k)
    /\ LET src == obtained[k].m
           d == DecodeMessage(Encode(src))
       IN obtained' = Append(obtained,
            IF HasNilAvp(src)
            THEN Obtained("DecodeMessage", k, src, NoMessage, <<>>, "panic", <<>>)
            ELSE Obtained("DecodeMessage", k, src, d.m, NewObjects(Len(d.m.Avps)),
                          IF d.err THEN "err" ELSE "ok", <<>>))
    /\ UNCHANGED <<original, besidesMessages>>

\* m.Clone(); AVP.Clone of a nil AVP panics.
CloneMessage(k) ==
    /\ Usable(k)
    /\ LET src == obtained[k].m
           clone == Clone(src)
           new == NewObjects(Len(src.Avps))
       IN obtained' = Append(obtained,
            IF HasNilAvp(src)
            THEN Obtained("Clone", k, src, NoMessage, <<>>, "panic", <<>>)
            ELSE Obtained("Clone", k, src, clone,
                          [i \in DOMAIN clone.Avps |->
                              IF clone.Avps[i] = NilAVP THEN 0
                              ELSE new[i - (Len(clone.Avps) - Len(src.Avps))]],
                          "ok", <<>>))
    /\ UNCHANGED <<original, besidesMessages>>

\* m.GenerateMatchingResponseWithAvps(avps, nil) with AVPs just built.
GenerateMatchingResponse(k, avps) ==
    /\ Usable(k)
    /\ LET src == obtained[k].m
       IN obtained' = Append(obtained,
            Obtained("GenerateMatchingResponseWithAvps", k, src,
                     GenerateMatchingResponseWithAvps(src, avps), NewObjects(Len(avps)),
                     "ok", <<>>))
    /\ UNCHANGED <<original, besidesMessages>>

\* NewTypedAVP(code, 0, true, Grouped, m.Avps) and the conversion of its
\* data back; NewTypedAVP reads the PaddedLength of each AVP, which panics
\* for a nil one.
ConvertGrouped(k) ==
    /\ Usable(k)
    /\ LET src == obtained[k].m
           converted == ConvertAVPDataToTypedData(NewTypedAVP(260, "Grouped", src.Avps).Data,
                                                  "Grouped")
       IN obtained' = Append(obtained,
            IF HasNilAvp(src)
            THEN Obtained("ConvertAVPDataToTypedData", k, src, NoMessage, <<>>, "panic", <<>>)
            ELSE Obtained("ConvertAVPDataToTypedData", k, src, NoMessage, <<>>,
                          IF converted.panic THEN "panic"
                          ELSE IF converted.err THEN "err" ELSE "ok",
                          converted.value))
    /\ UNCHANGED <<original, besidesMessages>>

\* m.Avps[i].Data[0] = 255 through the k-th message: every message that
\* points to the same AVP object sees it.  One AVP is changed in a run.
ChangeAvp(k, i) ==
    /\ k \in DOMAIN obtained
    /\ \A j \in DOMAIN obtained : obtained[j].touchedBy = {}
    /\ i \in DOMAIN obtained[k].objects
    /\ obtained[k].objects[i] # 0
    /\ Len(obtained[k].m.Avps[i].Data) > 0
    /\ obtained[k].m.Avps[i].Data[1] # 255
    /\ LET object == obtained[k].objects[i]
           changed(j) == { p \in DOMAIN obtained[j].objects : obtained[j].objects[p] = object }
       IN obtained' = [j \in DOMAIN obtained |->
            IF changed(j) = {} THEN obtained[j]
            ELSE [obtained[j] EXCEPT
                    !.m.Avps = [p \in DOMAIN @ |->
                                  IF p \in changed(j) THEN [@[p] EXCEPT !.Data[1] = 255]
                                  ELSE @[p]],
                    !.touchedBy = @ \cup {k}]]
    /\ UNCHANGED <<original, besidesMessages>>

InitMessages ==
    /\ newPeerStateManager(DefaultLocalIdentity) /\ initialState = "ByPeer"
    /\ NewMessageByteReader /\ NewMessageStreamReader /\ sentMessages = <<>>
    /\ NewSequenceGeneratorSet(<<0, 1000>>, <<0, 5000>>, 1)
    /\ NoDecoding /\ NoLookup
    /\ original \in BuiltMessages
    /\ obtained = <<[op |-> "NewMessage", of |-> 0, src |-> original, m |-> original,
                     objects |-> [i \in DOMAIN original.Avps |-> i], status |-> "ok",
                     value |-> <<>>, touchedBy |-> {}]>>

NextMessages ==
    \/ \E k \in DOMAIN obtained : EncodeAndDecode(k)
    \/ \E k \in DOMAIN obtained : CloneMessage(k)
    \/ \E k \in DOMAIN obtained, avps \in {<<>>, <<NewAVP(268, 0, FALSE, <<0, 0, 7, 209>>)>>} :
            GenerateMatchingResponse(k, avps)
    \/ \E k \in DOMAIN obtained : ConvertGrouped(k)
    \/ \E k \in DOMAIN obtained, i \in 1..4 : ChangeAvp(k, i)

SpecMessages == InitMessages /\ [][NextMessages]_vars

\* ------------------------------------------------------- for the claims

TypeOf(m) == stateMachineMessageTypeForMessage(m)

\* The calls of transport.Write the state machine task made, the one in
\* progress included.
SmWriteCalls ==
    written["sm"] \o (IF \E w \in inWrite : w.by = "sm" THEN <<WriteOf("sm")>> ELSE <<>>)

\* The calls among them that wrote a message of this type.
WritesOf(type) == {k \in DOMAIN SmWriteCalls : TypeOf(SmWriteCalls[k].msg) = type}

\* The answers among them to this message (an answer copies the identifier).
AnswersTo(m) ==
    {k \in DOMAIN SmWriteCalls :
        /\ IsAnswer(SmWriteCalls[k].msg)
        /\ SmWriteCalls[k].msg.HopByHopID = m.HopByHopID}

\* The messages NewRun read in this state and of this type.
Processed(state, type) ==
    {i \in DOMAIN processed : processed[i].state = state /\ processed[i].type = type}

DisconnectCalls == {i \in DOMAIN calls : calls[i].op = "InitiateDisconnect"}

\* C1: the first InitiateDisconnect that NewRun serves finds the state
\* machine in Connected and writes a DPR; when the transport takes the
\* write, the call returns nil and leaves the state HalfClosed.  Every later
\* call that returns returns the error "cannot initiate disconnect in the
\* current state" and writes nothing, and the connection sees exactly one DPR.
C1_InitiateDisconnectSendsOneDPR ==
    /\ DisconnectCalls # {} => Cardinality(WritesOf("dpr")) = 1
    /\ \A i \in DisconnectCalls :
        IF \A j \in DisconnectCalls : i <= j
        THEN /\ calls[i].write # "none"
             /\ calls[i].write = "ok" => (calls[i].res = "nil" /\ calls[i].state = "HalfClosed")
        ELSE /\ calls[i].write = "none"
             /\ calls[i].res = "cannot initiate disconnect in the current state"

C1_Witness ==
    \E i, j \in DisconnectCalls :
        /\ i < j
        /\ calls[i].write = "ok"
        /\ calls[j].res # "nil"

\* C2: once NewRun has returned the transport is closed and
\* ClosedTransportToPeerEvent was emitted, and no event follows that event.
C2_ClosedTransportIsTheFinalEvent ==
    /\ pc = "Done" =>
        /\ transportClosed
        /\ \E i \in DOMAIN Emitted : Emitted[i].Type = "ClosedTransportToPeerEvent"
    /\ \A i \in DOMAIN Emitted :
        Emitted[i].Type = "ClosedTransportToPeerEvent" => i = Len(Emitted)

\* C3: at no time are two calls of transport.Write in progress.
C3_WritesAreSerialised == Cardinality(inWrite) <= 1

\* C4: the write that follows an expiry of the watchdog timer is the write
\* of a DWR, and it is made in Connected only: never in HalfClosed.
C4_NoDWRInHalfClosed ==
    pc = "WriteDWR" =>
        /\ TypeOf(WriteOf("sm").msg) = "dwr"
        /\ nextState = "Connected"

\* C5: an InitiateDisconnect that wrote a DPR returns nil when the write
\* succeeded and the transport's error when it failed, and it returns with
\* the state HalfClosed, before any DPA.
C5_InitiateDisconnectReturnsTheOutcomeOfTheSend ==
    \A i \in DisconnectCalls :
        calls[i].write # "none" =>
            /\ calls[i].res = "nil" <=> calls[i].write = "ok"
            /\ calls[i].res = "nil" => calls[i].state = "HalfClosed"

\* C6 as claimed: in HalfClosed a DWR or DWA is accepted without an answer
\* and the state stays HalfClosed, a DPA leads to Disconnected without an
\* error, and every other message leads to Disconnected with an error.
C6_HalfClosedAnythingElseIsAnError ==
    \A i \in DOMAIN processed :
        LET p == processed[i]
        IN p.state = "HalfClosed" =>
            CASE p.type \in {"dwr", "dwa"} ->
                    /\ p.nextState = "HalfClosed"
                    /\ p.err.Error = "none"
                    /\ AnswersTo(p.Message) = {}
              [] p.type = "dpa" -> p.nextState = "Disconnected" /\ p.err.Error = "none"
              [] OTHER -> p.nextState = "Disconnected" /\ p.err.Error # "none"

\* C6 as amended: in HalfClosed a DWR, a DWA or an application message is
\* accepted without an answer and the state stays HalfClosed, a DPA leads to
\* Disconnected without an error, and a CER, CEA or DPR leads to
\* Disconnected with an error.
C6_HalfClosedTransitions ==
    \A i \in DOMAIN processed :
        LET p == processed[i]
        IN p.state = "HalfClosed" =>
            CASE p.type \in {"dwr", "dwa", "notAStateMachineMessage"} ->
                    /\ p.nextState = "HalfClosed"
                    /\ p.err.Error = "none"
                    /\ AnswersTo(p.Message) = {}
              [] p.type = "dpa" -> p.nextState = "Disconnected" /\ p.err.Error = "none"
              [] OTHER -> p.nextState = "Disconnected" /\ p.err.Error # "none"

C6_Witness ==
    /\ Processed("HalfClosed", "notAStateMachineMessage") # {}
    /\ Processed("HalfClosed", "dwr") # {}
    /\ pc = "Select"

\* C7: a DPA read in Connected is an error: an error event for it is
\* emitted, the state is Disconnected, no further message is processed and
\* NewRun is on its way out (writing the DPR that precedes its return) or
\* has returned with the transport closed.
C7_UnsolicitedDPAIsAnError ==
    \A i \in Processed("Connected", "dpa") :
        /\ processed[i].err.Error # "none"
        /\ \E k \in DOMAIN Emitted :
            Emitted[k].Type = "ErrorEvent" /\ Emitted[k].Error = processed[i].err.Error
        /\ processed[i].nextState = "Disconnected"
        /\ nextState = "Disconnected"
        /\ i = Len(processed)
        /\ pc \in {"WriteErrorDPR", "Done"}
        /\ pc = "Done" => transportClosed

C7_Witness ==
    /\ Processed("Connected", "dpa") # {}
    /\ pc = "Done"

\* C8: every DPR read in Connected is answered by exactly one write of a
\* DPA and takes the state to Disconnected; no other DPA is written.
C8_DPRInConnectedSendsOneDPA ==
    /\ \A i \in Processed("Connected", "dpr") :
        /\ Cardinality(AnswersTo(processed[i].Message)) = 1
        /\ AnswersTo(processed[i].Message) \subseteq WritesOf("dpa")
        /\ processed[i].nextState = "Disconnected"
        /\ nextState = "Disconnected"
    /\ Cardinality(WritesOf("dpa")) = Cardinality(Processed("Connected", "dpr"))

C8_Witness ==
    /\ Processed("Connected", "dpr") # {}
    /\ \E k \in DOMAIN written["sm"] :
        TypeOf(written["sm"][k].msg) = "dpa" /\ written["sm"][k].res = "ok"
    /\ pc = "Done"

\* C9: every DWR read in Connected is answered by exactly one write of a
\* DWA and leaves the state Connected; no other DWA is written.
C9_DWRInConnectedSendsOneDWA ==
    /\ \A i \in Processed("Connected", "dwr") :
        /\ Cardinality(AnswersTo(processed[i].Message)) = 1
        /\ AnswersTo(processed[i].Message) \subseteq WritesOf("dwa")
        /\ processed[i].nextState = "Connected"
    /\ Cardinality(WritesOf("dwa")) = Cardinality(Processed("Connected", "dwr"))

C9_Witness ==
    /\ Cardinality(Processed("Connected", "dwr")) >= 2
    /\ Cardinality({k \in DOMAIN written["sm"] :
            TypeOf(written["sm"][k].msg) = "dwa" /\ written["sm"][k].res = "ok"}) >= 2
    /\ nextState = "Connected"
    /\ pc = "Select"

IsReceivedEvent(e) ==
    e.Type \in {"StateMachineMessageReceivedFromPeerEvent", "MessageReceivedFromPeerEvent"}

IsSentEvent(e) == e.Type = "StateMachineMessageSentToPeerEvent"

\* Where the state machine task wrote this message.
WrittenAt(m) == {k \in DOMAIN written["sm"] : written["sm"][k].msg = m}

\* C10: the consumer reads the received-events in the order in which the
\* reader task decoded their messages, none missing in between, and each
\* after its decode; it reads the sent-events in the order in which the
\* state machine wrote their messages, each after its write returned.
C10_EventsPreserveWireOrder ==
    LET received == SelectSeq(delivered, IsReceivedEvent)
        sent == SelectSeq(delivered, IsSentEvent)
    IN /\ Len(received) <= Len(decoded)
       /\ \A i \in DOMAIN received : received[i].Message = decoded[i]
       /\ \A i \in DOMAIN sent : WrittenAt(sent[i].Message) # {}
       /\ \A i, j \in DOMAIN sent :
            i < j => \A a \in WrittenAt(sent[i].Message), b \in WrittenAt(sent[j].Message) : a < b

C10_Witness ==
    /\ Len(SelectSeq(delivered, IsReceivedEvent)) >= 2
    /\ Len(SelectSeq(delivered, IsSentEvent)) >= 2
    /\ \E i \in DOMAIN delivered : IsSentEvent(delivered[i]) /\ IsRequest(delivered[i].Message)

\* The events of this type emitted so far.
EmittedOf(type) == {i \in DOMAIN Emitted : Emitted[i].Type = type}

SendMessageCalls == {i \in DOMAIN calls : calls[i].op = "SendMessage"}

\* C11: NewRun has returned once it has read the reader's error (the peer
\* closed the transport, or the read failed), once one of its writes has
\* failed, and once the state is Disconnected; after an error event it
\* has returned or is writing the DPR that precedes its return, and with
\* the state Disconnected it is at most writing its last message.
C11_ExitsOnCloseErrorOrDisconnected ==
    /\ readerDone => pc = "Done"
    /\ (\E k \in DOMAIN written["sm"] : written["sm"][k].res = "err") => pc = "Done"
    /\ EmittedOf("ErrorEvent") # {} => pc \in {"WriteErrorDPR", "Done"}
    /\ nextState = "Disconnected" => pc \in {"WriteErrorDPR", "WriteAnswer", "Done"}

\* C12: the end of the stream is reported as PeerClosedTransportEvent only
\* in HalfClosed or once the peer may close (Disconnected): never during
\* the handshake and never in Connected.
C12_EndOfStreamIsAnErrorOutsideHalfClosed ==
    EmittedOf("PeerClosedTransportEvent") # {} => nextState \in {"HalfClosed", "Disconnected"}

\* C13: Peer.SendMessage returns nil exactly when transport.Write took the
\* message; it returns an error when Write failed and when the message was
\* refused.
C13_SendMessageReturnsNilOnlyWhenDelivered ==
    \A i \in SendMessageCalls : calls[i].res = "nil" <=> calls[i].write = "ok"

\* How many AVPs with this code the message carries.
CountOf(m, code) == Cardinality({i \in DOMAIN m.Avps : m.Avps[i].Code = code})

\* The data of the AVPs with this code, in the order of the message.
DataOf(m, code) ==
    LET avps == SelectSeq(m.Avps, LAMBDA a : a.Code = code)
    IN [i \in DOMAIN avps |-> avps[i].Data]

\* A CER that carries the mandatory AVPs of a Capabilities-Exchange.
IsCerWithMandatoryAvps(m) ==
    /\ m.AppID = 0 /\ m.Code = CapabilitiesExchangeCode /\ IsRequest(m)
    /\ \A c \in {264, 296, 266, 269} : CountOf(m, c) = 1
    /\ CountOf(m, 257) >= 1

\* The message carries this identity in its Capabilities-Exchange AVPs.
CarriesIdentity(m, e) ==
    /\ DataOf(m, 264) = <<e.OriginHost>>
    /\ DataOf(m, 296) = <<e.OriginRealm>>
    /\ DataOf(m, 257) = [i \in DOMAIN e.HostIPAddresses |->
                            <<0, IF Len(e.HostIPAddresses[i]) = 4 THEN 1 ELSE 2>> \o e.HostIPAddresses[i]]
    /\ DataOf(m, 266) = <<PutUint32(e.VendorID)>>
    /\ DataOf(m, 269) = <<e.ProductName>>

\* C14: on a transport the peer opened, once Execute has read the first
\* message: unless it is a CER with Origin-Host, Origin-Realm, Vendor-Id and
\* Product-Name once each and at least one Host-IP-Address, NewRun has
\* returned, no CEA was written and the state was never Connected; a CEA is
\* written only for such a CER, and it carries Result-Code 2001 and the
\* local identity.
C14_PeerInitiatedHandshake ==
    (initialState = "ByPeer" /\ Len(decoded) >= 1 /\ pc \notin {"Start", "ExecuteRead"}) =>
        /\ ~IsCerWithMandatoryAvps(decoded[1]) =>
              pc = "Done" /\ WritesOf("cea") = {} /\ nextState = "None" /\ ~peer
        /\ nextState # "None" => WritesOf("cea") # {}
        /\ \A k \in WritesOf("cea") :
              /\ IsCerWithMandatoryAvps(decoded[1])
              /\ DataOf(SmWriteCalls[k].msg, 268) = <<PutUint32(2001)>>
              /\ CarriesIdentity(SmWriteCalls[k].msg, localIdentity)

\* The data of a Host-IP-Address AVP: the address family and an address of
\* its length, IPv4 or IPv6.
IsAnEncodedAddress(data) ==
    \/ Len(data) = 6 /\ SubSeq(data, 1, 2) = <<0, 1>>
    \/ Len(data) = 18 /\ SubSeq(data, 1, 2) = <<0, 2>>

\* A CEA that carries the mandatory AVPs of a Capabilities-Exchange, each
\* well formed.
IsAValidCEA(m) ==
    /\ m.AppID = 0 /\ m.Code = CapabilitiesExchangeCode /\ IsAnswer(m)
    /\ \A c \in {264, 296, 266, 269} : CountOf(m, c) = 1
    /\ CountOf(m, 257) >= 1
    /\ \A i \in DOMAIN DataOf(m, 257) : IsAnEncodedAddress(DataOf(m, 257)[i])
    /\ Len(DataOf(m, 266)[1]) = 4

\* Execute wrote the CER and has read the peer's first message.
CerSentAndFirstMessageRead ==
    /\ initialState = "TowardPeer"
    /\ Len(written["sm"]) >= 1 /\ written["sm"][1].res = "ok"
    /\ Len(decoded) >= 1 /\ pc # "ExecuteRead"

\* C15: on a transport opened toward the peer, once the CER is written and
\* the first message is read: if it is a valid CEA the connection was
\* established with the identity its AVPs carry, and the events emitted up
\* to then are the sent CER and the received CEA, in this order; if it is
\* not a CEA, NewRun has returned and the state was never Connected.
C15_LocallyInitiatedHandshake ==
    CerSentAndFirstMessageRead =>
        /\ TypeOf(written["sm"][1].msg) = "cer"
        /\ IsAValidCEA(decoded[1]) =>
              /\ peer /\ nextState # "None"
              /\ CarriesIdentity(decoded[1], peerIdentity)
              /\ Len(Emitted) >= 3
              /\ SubSeq(Emitted, 1, 3) =
                    <<NotifyThatAStateMachineMessageWasSentToThePeer(FALSE, written["sm"][1].msg),
                      NotifyThatAStateMachineMessageWasReceivedFromThePeer(FALSE, decoded[1]),
                      NotifyThatDiameterConnectionHasBeenEstablished(TRUE)>>
        /\ TypeOf(decoded[1]) # "cea" => pc = "Done" /\ nextState = "None" /\ ~peer

\* The Capabilities-Exchange messages the state machine wrote or is writing.
CapabilitiesExchangeWrites == WritesOf("cer") \cup WritesOf("cea")

\* C16: every CER and CEA the state machine writes carries the local
\* identity in its AVPs, and the identity extracted from it, as the state
\* machine at the other end extracts it, is the local identity.
C16_CapabilitiesExchangeCarriesTheLocalIdentity ==
    \A k \in CapabilitiesExchangeWrites :
        /\ CarriesIdentity(SmWriteCalls[k].msg, localIdentity)
        /\ DiameterEntityFromCapabilitiesExchangeMessage(SmWriteCalls[k].msg) =
              [status |-> "ok", entity |-> localIdentity]

\* a is an answer to the request r: same code and identifiers, R cleared.
IsTheAnswerTo(a, r) ==
    /\ IsRequest(r) /\ ~IsRequest(a)
    /\ a.Code = r.Code
    /\ a.HopByHopID = r.HopByHopID
    /\ a.EndToEndID = r.EndToEndID

\* C17: the message NewRun sends for a DWR or a DPR it read is an answer to
\* it, the first message Execute writes on a transport the peer opened is
\* an answer to the CER it read, and every CEA, DWA and DPA the state
\* machine writes is an answer to a request the reader decoded: same code,
\* same hop-by-hop and end-to-end identifier, R flag cleared.
C17_AnswersMatchTheirRequests ==
    /\ \A i \in DOMAIN processed :
        (processed[i].type \in {"dwr", "dpr"} /\ processed[i].messageToSend # NoMessage) =>
            IsTheAnswerTo(processed[i].messageToSend, processed[i].Message)
    /\ (initialState = "ByPeer" /\ SmWriteCalls # <<>>) =>
            IsTheAnswerTo(SmWriteCalls[1].msg, decoded[1])
    /\ \A k \in WritesOf("cea") \cup WritesOf("dwa") \cup WritesOf("dpa") :
        \E i \in DOMAIN decoded : IsTheAnswerTo(SmWriteCalls[k].msg, decoded[i])

C17_Witness ==
    /\ \A type \in {"cea", "dwa", "dpa"} :
        \E k \in DOMAIN written["sm"] :
            TypeOf(written["sm"][k].msg) = type /\ written["sm"][k].res = "ok"
    /\ \E i \in DOMAIN processed : processed[i].type = "dpr" /\ processed[i].messageToSend # NoMessage

\* The message carries Origin-Host once, with the local host, and
\* Origin-Realm once, with the local realm.
CarriesOriginHostAndRealm(m) ==
    /\ DataOf(m, 264) = <<localIdentity.OriginHost>>
    /\ DataOf(m, 296) = <<localIdentity.OriginRealm>>

\* C18: every DWR and DPR the state machine writes carries Origin-Host and
\* Origin-Realm once each, with the local host and the local realm, a DPR
\* also one Disconnect-Cause; every DWA carries them and Result-Code 2001.
C18_WatchdogAndDisconnectCarryHostAndRealm ==
    /\ \A k \in WritesOf("dwr") \cup WritesOf("dpr") \cup WritesOf("dwa") :
        CarriesOriginHostAndRealm(SmWriteCalls[k].msg)
    /\ \A k \in WritesOf("dpr") : CountOf(SmWriteCalls[k].msg, 273) = 1
    /\ \A k \in WritesOf("dwa") : DataOf(SmWriteCalls[k].msg, 268) = <<PutUint32(2001)>>

\* How often the watchdog timer has expired: the inputs that are neither a
\* decoded message nor a call.
TimerExpiries ==
    inputs - Len(decoded) - Len(calls) - Cardinality({u \in Users : user[u] # "idle"})

\* C19: when NewRun reads a message from the reader in its loop, the
\* watchdog timer is running anew afterwards, whatever it was before (an
\* expiry not yet read is dropped); the timer expires only while it runs
\* and not in the step that reads the message, and a DWR is begun only for
\* an expiry.  So the DWR that follows a received message is for an expiry
\* of the interval started at that receipt or later.
C19_EveryReceivedMessageResetsTheTimer ==
    [][ /\ processed' # processed => watchdogTimer' = "active"
        /\ (watchdogTimer' = "fired" /\ watchdogTimer # "fired") =>
              (watchdogTimer = "active" /\ processed' = processed)
        /\ Cardinality(WritesOf("dwr"))' > Cardinality(WritesOf("dwr")) =>
              (watchdogTimer = "fired" /\ watchdogTimer' = "read") ]_vars

\* The timer expired, a message was then read in the loop, and no DWR
\* was ever written: the expiry was dropped and the timer runs again.
C19_Witness ==
    /\ TimerExpiries >= 1
    /\ processed # <<>>
    /\ WritesOf("dwr") = {}
    /\ watchdogTimer = "active"
    /\ pc = "Select"

\* C20: whatever the chunks, the messages the calls of ReceiveBytes have
\* returned so far are the messages of the stream that end within the
\* bytes passed, in order, and the buffer holds the bytes passed after the
\* last of them; no call fails.  Passing the whole stream in one call
\* returns all its messages and leaves the buffer empty, so once all
\* chunks are passed the messages returned are the same as in one call.
C20_ChunksYieldTheMessagesOfTheStream ==
    sentMessages # <<>> =>
        LET whole == ReceiveBytes(<<>>, Stream)
            complete == { i \in 0..Len(sentMessages) : EndOf(i) <= pushed }
            last == CHOOSE i \in complete : \A j \in complete : j <= i
        IN /\ ~whole.err /\ whole.messages = sentMessages /\ whole.buffer = <<>>
           /\ ~failed
           /\ extractedMessages = SubSeq(whole.messages, 1, last)
           /\ incomingBuffer = SubSeq(Stream, EndOf(last) + 1, pushed)
           /\ pushed = Len(Stream) => extractedMessages = whole.messages

\* A stream of two messages was passed whole in chunks of which one ended
\* inside a header and one inside the AVPs of a message, and one call
\* returned both messages.
C20_Witness ==
    /\ Len(sentMessages) = 2
    /\ pushed = Len(Stream)
    /\ extractedMessages = sentMessages
    /\ cases = {"header", "avp", "several"}

\* C21: successive calls of ReadNextMessage return the messages of the byte
\* source in the order of the stream, however the source splits them across
\* its reads; once the source fails or ends, ReadNextMessage returns that
\* error with no message, every message the source handed out before it
\* having been returned.
C21_ReadNextMessageReturnsTheMessagesOfTheSource ==
    \A i \in DOMAIN returned :
        IF returned[i].err = "nil"
        THEN i <= Len(sentMessages) /\ returned[i].m = sentMessages[i]
        ELSE /\ returned[i].m = NoMessage
             /\ returned[i].err = underlyingReader.err
             /\ \A j \in DOMAIN sentMessages :
                    EndOf(j) <= underlyingReader.handedOut =>
                        j < i /\ returned[j].err = "nil"

\* Every write begun or finished: the task, the place among the task's
\* finished writes (0: the write has not returned) and the write.
WriteOccurrences ==
    { [by |-> w.by, k |-> 0, w |-> w] : w \in inWrite } \cup
    UNION { { [by |-> t, k |-> k, w |-> written[t][k]] : k \in DOMAIN written[t] } :
            t \in DOMAIN written }

\* The writes of a caller's request.
RequestsSentViaPeer == { o \in WriteOccurrences : o.by \in Users /\ IsRequest(o.w.arg) }

\* The writes whose message got its hop-by-hop (end-to-end) identifier from
\* the generator: the state machine's requests, and the callers' messages
\* that came without one.
WithGeneratedHopByHopId ==
    { o \in WriteOccurrences :
        IF o.by \in Users THEN o.w.arg.HopByHopID = 0 ELSE IsRequest(o.w.msg) }

WithGeneratedEndToEndId ==
    { o \in WriteOccurrences :
        IF o.by \in Users THEN o.w.arg.EndToEndID = 0 ELSE IsRequest(o.w.msg) }

\* C22: a request passed to SendMessageViaPeer is written with a hop-by-hop
\* (end-to-end) identifier that is its own when that is not zero, and
\* otherwise one handed out by the generator and given to no other
\* message; nothing else of the message changes.
C22_ZeroIdentifiersAreGeneratedBeforeTheWrite ==
    \A o \in RequestsSentViaPeer :
        /\ IF o.w.arg.HopByHopID # 0
           THEN o.w.msg.HopByHopID = o.w.arg.HopByHopID
           ELSE /\ o.w.msg.HopByHopID \in HbhSeed..(nextValue - 1)
                /\ \A p \in WithGeneratedHopByHopId \ {o} :
                       p.w.msg.HopByHopID # o.w.msg.HopByHopID
        /\ IF o.w.arg.EndToEndID # 0
           THEN o.w.msg.EndToEndID = o.w.arg.EndToEndID
           ELSE /\ \E n \in E2eSeed..(nextValueForLower24Bits - 1) :
                       o.w.msg.EndToEndID = NextEndToEndId(n)
                /\ \A p \in WithGeneratedEndToEndId \ {o} :
                       p.w.msg.EndToEndID # o.w.msg.EndToEndID
        /\ o.w.msg = [o.w.arg EXCEPT !.HopByHopID = o.w.msg.HopByHopID,
                                      !.EndToEndID = o.w.msg.EndToEndID]

\* Two requests of a caller were written, one with both identifiers
\* generated and one with both its own, next to a request of the state
\* machine.
C22_Witness ==
    /\ \E o \in RequestsSentViaPeer :
            o.k > 0 /\ o.w.arg.HopByHopID = 0 /\ o.w.arg.EndToEndID = 0
    /\ \E o \in RequestsSentViaPeer :
            o.k > 0 /\ o.w.arg.HopByHopID = 7 /\ o.w.arg.EndToEndID = 9
    /\ \E o \in WithGeneratedHopByHopId : o.by = "sm"

\* The values the calls of hbhGenerator.Next (eteGenerator.Next) returned.
HandedOutBy(id) == { i \in DOMAIN handedOut : handedOut[i].id = id }

\* The calls of this generator that have incremented the counter and not
\* returned.
Returning(id) == { c \in GeneratorCallers : callerPc[c] = id \o ".return" }

Low24(v) == (v[1] % 256) * 65536 + v[2]

High8(v) == v[1] \div 256

ObtainedBy(op) == { k \in DOMAIN obtained : obtained[k].op = op }

\* C25: decoding the encoding of a message yields a message with the same
\* version, flags, code, application id, hop-by-hop and end-to-end
\* identifiers, and the same AVPs in the same order.
C25_DecodeOfEncodeIsTheMessage ==
    \A k \in ObtainedBy("DecodeMessage") :
        LET m == obtained[k].src
            d == DecodeMessage(Encode(m))
        IN ~HasNilAvp(m) =>
            /\ obtained[k].status = "ok" /\ ~d.err
            /\ d.m.Version = m.Version /\ d.m.Flags = m.Flags /\ d.m.Code = m.Code
            /\ d.m.AppID = m.AppID /\ d.m.HopByHopID = m.HopByHopID
            /\ d.m.EndToEndID = m.EndToEndID
            /\ Len(d.m.Avps) = Len(m.Avps)
            /\ \A i \in DOMAIN m.Avps :
                    AvpEqual(d.m.Avps[i], m.Avps[i]) /\ d.m.Avps[i] = m.Avps[i]
            /\ Equals(d.m, m) = "true"

\* A message with every flag, a vendor-specific AVP and a protected AVP
\* with padding was encoded and decoded.
C25_Witness ==
    \E k \in ObtainedBy("DecodeMessage") :
        LET m == obtained[k].src
        IN /\ m.Flags = 240 /\ Len(m.Avps) = 2
           /\ m.Avps[1].VendorSpecific /\ m.Avps[2].Protected
           /\ m.Avps[2].PaddedLength > m.Avps[2].Length
           /\ obtained[k].status = "ok"

\* The messages obtained, whatever the operation.
ObtainedMessages ==
    { k \in DOMAIN obtained :
        obtained[k].status = "ok" /\ obtained[k].op # "ConvertAVPDataToTypedData" }

\* C26: every message obtained (from NewMessage, DecodeMessage,
\* GenerateMatchingResponseWithAvps or Clone) has AVPs only, and its Length
\* is 20 plus the padded lengths of its AVPs, which is the number of bytes
\* of its encoding.
C26_LengthIsTheHeaderAndThePaddedAvps ==
    \A k \in ObtainedMessages :
        LET m == obtained[k].m
        IN /\ ~HasNilAvp(m)
           /\ m.Length = 20 + SumOfPaddedLengths(m.Avps)
           /\ Len(Encode(m)) = m.Length

\* C27: the clone of a message has as many AVPs as the message, each the
\* clone of the AVP at its place and a new object, so that the clone
\* Equals the message, the message Equals the clone, and a change of an AVP
\* made through one of the two does not reach the other.
C27_CloneHasTheClonedAvpsOnly ==
    \A k \in ObtainedBy("Clone") :
        LET src == obtained[k].src
            clone == Clone(src)
        IN obtained[k].status = "ok" =>
            /\ Len(clone.Avps) = Len(src.Avps)
            /\ \A i \in DOMAIN src.Avps : clone.Avps[i] = CloneAVP(src.Avps[i])
            /\ Equals(clone, src) = "true" /\ Equals(src, clone) = "true"
            /\ \A i \in DOMAIN obtained[k].objects :
                    /\ obtained[k].objects[i] # 0
                    /\ \A j \in DOMAIN obtained : j # k =>
                            \A p \in DOMAIN obtained[j].objects :
                                obtained[j].objects[p] # obtained[k].objects[i]
            /\ k \notin obtained[obtained[k].of].touchedBy
            /\ obtained[k].of \notin obtained[k].touchedBy

\* The conversions of the data of a Grouped AVP.
GroupedConversions == ObtainedBy("ConvertAVPDataToTypedData")

\* C28: the data of a Grouped AVP built from n AVPs (n >= 0) converts
\* back to exactly those n AVPs, in their order.
C28_GroupedDataConvertsBackToItsAvps ==
    \A k \in GroupedConversions :
        ~HasNilAvp(obtained[k].src) =>
            /\ obtained[k].status = "ok"
            /\ obtained[k].value = obtained[k].src.Avps

\* The capabilities exchange has completed, the transport is open, and no
\* Disconnect-Peer procedure has begun or ended: NewRun is in its loop in
\* the state Connected.
ConnectionIsEstablished ==
    /\ peer /\ ~transportClosed
    /\ nextState = "Connected"
    /\ pc \notin {"Start", "Done", "Panic"}

\* C29: once a consumer holds the Peer, IsInAConnectedState is true exactly
\* when the transport is open, the capabilities exchange has completed and
\* no Disconnect-Peer procedure is pending or completed, and IsDisconnected
\* is its negation.
C29_IsInAConnectedStateTellsTheState ==
    ConsumerHasPeer =>
        /\ IsInAConnectedState <=> ConnectionIsEstablished
        /\ IsDisconnected <=> ~IsInAConnectedState

\* C30: every call of InitiateDisconnect returns to its caller, whatever
\* the state machine is doing when it is made.
C30_InitiateDisconnectReturns ==
    \A u \in Users : (user[u] = "InitiateDisconnect") ~> (user[u] = "idle")

\* NewRun is inside a send on eventChannel, which is full.
NewRunIsBlockedSendingAnEvent ==
    /\ pc \in {"ExecuteWrite", "WriteDPR", "WriteErrorDPR", "WriteAnswer", "WriteDWR"}
    /\ \E w \in inWrite : w.by = "sm" /\ w.res = "ok"
    /\ Len(eventChannel) = PeerEventChannelCap

\* C31: a consumer that calls InitiateDisconnect from its event loop is never
\* blocked in the call while NewRun is blocked sending an event.
C31_NoDeadlockWithTheConsumer ==
    ~(/\ NewRunIsBlockedSendingAnEvent
      /\ \E u \in Users : user[u] = "InitiateDisconnect")

\* C32: the timer operations never panic and never block: Restart is called
\* (when the Write of the DWR has returned) only on a timer that fired and
\* whose value was read from C, and StopAndRestart (called when the loop
\* reads a message) only on a timer that runs or whose value still waits in
\* C; so at every select the timer runs or has a value waiting.
C32_TimerOperationsNeitherPanicNorBlock ==
    /\ watchdogTimer # "panic"
    /\ pc = "WriteDWR" => /\ watchdogTimer = "read"
                          /\ Restart(watchdogTimer) = "active"
    /\ pc = "Select" => /\ watchdogTimer \in {"active", "fired"}
                        /\ ~StopAndRestartBlocks(watchdogTimer)

\* The timer expired twice and a message was read in the loop: one expiry
\* was read and answered with a DWR, after which Restart was called, the
\* other was dropped or drained by StopAndRestart; the timer runs again.
C32_Witness ==
    /\ TimerExpiries >= 2
    /\ processed # <<>>
    /\ Cardinality(WritesOf("dwr")) = 1
    /\ \E k \in DOMAIN written["sm"] : TypeOf(written["sm"][k].msg) = "dwr"
    /\ watchdogTimer = "active"
    /\ pc = "Select"

\* C33: once NewRun has returned, the reader task is not blocked sending on
\* messageReaderChannel, from which only NewRun and Execute receive.
C33_TheReaderIsNotLeftBlocked ==
    ~(/\ pc = "Done"
      /\ ~readerDone
      /\ messageReaderChannel # NoEvent)

\* C34: a caller of Peer.SendMessage begins its Write to the transport only
\* while the state is Connected and NewRun has not returned.
C34_UserMessagesAreGatedByTheState ==
    [][ \A u \in Users :
            (user[u] = "idle" /\ user'[u] = "SendMessage") =>
                (nextState = "Connected" /\ pc # "Done" /\ ~transportClosed) ]_vars

\* C35: DiameterConnectionClosedEvent is emitted only after
\* DiameterConnectionEstablishedEvent, at most once, and, when the run of an
\* established connection has ended with ClosedTransportToPeerEvent,
\* exactly once and before that event.
C35_EstablishedConnectionsAreClosedOnce ==
    LET established == EmittedOf("DiameterConnectionEstablishedEvent")
        closed == EmittedOf("DiameterConnectionClosedEvent")
        final == EmittedOf("ClosedTransportToPeerEvent")
    IN /\ \A c \in closed : \E e \in established : e < c
       /\ Cardinality(closed) <= 1
       /\ (established # {} /\ final # {}) =>
             /\ Cardinality(closed) = 1
             /\ \A c \in closed : \A f \in final : c < f

\* C36: every StateMachineMessageSentToPeerEvent carries a message of which
\* a Write of NewRun has returned without an error.
C36_SentEventsAreForSuccessfulWrites ==
    \A i \in EmittedOf("StateMachineMessageSentToPeerEvent") :
        \E k \in DOMAIN written["sm"] :
            /\ written["sm"][k].msg = Emitted[i].Message
            /\ written["sm"][k].res = "ok"

\* C37: DecodeMessage and DecodeAVP return a value or an error for every
\* buffer: no call panics.
C37_DecodingNeverPanics ==
    \A k \in DOMAIN decodings : decodings[k].outcome \in {"value", "error"}

\* How many messages the calls of ReadNextMessage have returned.
MessagesReturned == Cardinality({ i \in DOMAIN returned : returned[i].err = "nil" })

\* C38: the bytes the source has delivered are the bytes of the messages
\* returned and the bytes buffered, and when ReadNextMessage reports the
\* source's error or end, every message that is complete in the bytes
\* delivered was returned by an earlier call.
C38_NoDeliveredByteIsLost ==
    /\ underlyingReader.handedOut = EndOf(MessagesReturned) + Len(internalByteBuffer)
    /\ \A i \in DOMAIN returned :
          returned[i].err \in {"EOF", "failure"} =>
              \A j \in DOMAIN sentMessages :
                  EndOf(j) <= underlyingReader.handedOut =>
                      \E k \in 1..(i - 1) : returned[k] = [m |-> sentMessages[j], err |-> "nil"]

\* C39: every lookup returns what a scan of the message's AVPs at that
\* moment gives.
C39_LookupsAgreeWithTheAvps ==
    \A k \in DOMAIN lookups : lookups[k].result = lookups[k].scan

====
